---- MODULE Spec2Model ----
(***************************************************************************)
(* ChatService (venueless/core/services/chat.py): event id allocation with *)
(* self-healing (create_event / _store_event / _get_highest_id) and the    *)
(* channel and membership operations (get_or_create_direct_channel,        *)
(* add_channel_user, remove_channel_user, hide_channel_user).              *)
(*                                                                         *)
(* Every await of the service is a suspension point, so each asynchronous  *)
(* method is a sequence of steps, one per redis or database round trip,    *)
(* and the steps of different workers interleave.                          *)
(***************************************************************************)
EXTENDS Integers, FiniteSets, Sequences, TLC

\* ------------------------------------------------------------------ bounds
NumWorkers == 2      \* worker processes running service calls concurrently
MaxCalls == 3        \* create_event calls started in one behaviour
MaxResets == 1       \* times the redis counter is cleared in one behaviour
MaxOps == 3          \* channel and membership operations started in one behaviour
MaxBlocks == 1       \* block relations added in one behaviour

Workers == 1..NumWorkers

VARIABLES
    chat_event_id,   \* redis key "chat.event_id": [present, value]
    ChatEvent,       \* the durable event log: a set of rows
    calls,           \* per worker: the create_event frame it is executing
    returned,        \* ids returned by successful create_event calls, in order
    ncalls,          \* create_event calls started so far
    nresets,         \* counter resets so far
    Channel,         \* channel rows: [id, room, world]
    Membership,      \* membership rows: [channel, user, volatile, hidden]
    blocked,         \* User.blocked_users: <<u, v>> when u has blocked v
    frames,          \* per worker: the channel operation it is executing
    last,            \* the operation that completed most recently, with its result
    nops,            \* channel operations started so far
    nblocks,         \* block relations added so far
    ChatEventReaction,      \* reaction rows: [id, chat_event, reaction, sender]
    ChatEventNotification,  \* notification rows: [id, chat_event, recipient]
    BBBCall,                \* call records: [id, world]
    sent                    \* what was sent to the chat groups: [channel, user, event]

event_vars == <<chat_event_id, ChatEvent, calls, returned, ncalls, nresets>>

channel_vars == <<Channel, Membership, blocked, frames, last, nops, nblocks>>

tracker_vars == <<ChatEventReaction, ChatEventNotification, BBBCall>>

vars == <<chat_event_id, ChatEvent, calls, returned, ncalls, nresets,
          Channel, Membership, blocked, frames, last, nops, nblocks,
          ChatEventReaction, ChatEventNotification, BBBCall, sent>>

\* ------------------------------------------------------------- event log
None == "None"

SetMax(S) == CHOOSE x \in S : \A y \in S : y <= x

EventIds(log) == {e.id : e \in log}

\* ChatEvent.objects.aggregate(m=Max("id"))["m"] or 0
HighestId(log) == IF log = {} THEN 0 ELSE SetMax(EventIds(log))

\* redis INCR: a missing key counts as 0
Incr(key) == [present |-> TRUE, value |-> key.value + 1]

\* redis SET
RedisSet(v) == [present |-> TRUE, value |-> v]

\* The arguments create_event is called with. Each worker serves the
\* connections of one channel, so concurrent calls are for different channels
\* whenever their workers' channels differ.
EventChannels == {"r1", "r2"}
ChannelOf(w) == IF w % 2 = 1 THEN "r1" ELSE "r2"
EventSenders == {"A"}
EventArgs(w) ==
    [channel : {ChannelOf(w)}, event_type : {"channel.message"},
     content : {[type |-> "text"]}, sender : EventSenders, replaces : {None}]

NoArgs ==
    [channel |-> None, event_type |-> None, content |-> None, sender |-> None,
     replaces |-> None]

IdleCall ==
    [pc |-> "idle", event_id |-> 0, current_max |-> 0, retry |-> FALSE,
     args |-> NoArgs, attempts |-> 0, seen |-> 0, alone |-> FALSE, floor |-> 0,
     given |-> NoArgs]

ReturnedMax == IF returned = <<>> THEN 0
               ELSE SetMax({returned[i] : i \in 1..Len(returned)})

CounterCleared == ~chat_event_id.present \/ chat_event_id.value = 0

\* pc after the INCR of create_event: "if event_id < 2" (line 336)
AfterIncr(id) == IF id < 2 THEN "floor_max" ELSE "store"

\* A call by another worker, or a further reset, ends the solitude of the
\* calls in flight.
Disturbed(w) ==
    [v \in Workers |-> IF v = w THEN calls[v] ELSE [calls[v] EXCEPT !.alone = FALSE]]

\* create_event, lines 331-335: a fresh call (_retry=False) increments the counter
create_event(w, a) ==
    /\ calls[w].pc = "idle"
    /\ ncalls < MaxCalls
    /\ chat_event_id' = Incr(chat_event_id)
    /\ calls' = [Disturbed(w) EXCEPT ![w] =
            [pc |-> AfterIncr(chat_event_id'.value),
             event_id |-> chat_event_id'.value,
             current_max |-> 0, retry |-> FALSE, args |-> a, attempts |-> 0,
             seen |-> ReturnedMax,
             alone |-> /\ CounterCleared
                       /\ HighestId(ChatEvent) >= 1
                       /\ \A v \in Workers : calls[v].pc = "idle",
             floor |-> HighestId(ChatEvent),
             given |-> a]]
    /\ ncalls' = ncalls + 1
    /\ UNCHANGED <<ChatEvent, returned, nresets>>
    /\ UNCHANGED <<channel_vars, tracker_vars, sent>>

\* lines 336-337: current_max = await self._get_highest_id()
floor_get_highest_id(w) ==
    /\ calls[w].pc = "floor_max"
    /\ calls' = [calls EXCEPT ![w].current_max = HighestId(ChatEvent),
                              ![w].pc = "floor_set"]
    /\ UNCHANGED <<chat_event_id, ChatEvent, returned, ncalls, nresets>>
    /\ UNCHANGED <<channel_vars, tracker_vars, sent>>

\* lines 338-339: redis.set("chat.event_id", current_max + 1); event_id is kept
floor_set(w) ==
    /\ calls[w].pc = "floor_set"
    /\ chat_event_id' = RedisSet(calls[w].current_max + 1)
    /\ calls' = [calls EXCEPT ![w].pc = "store"]
    /\ UNCHANGED <<ChatEvent, returned, ncalls, nresets>>
    /\ UNCHANGED <<channel_vars, tracker_vars, sent>>

\* the row ChatEvent.objects.create inserts (lines 297-304)
EventRow(c) ==
    [id |-> c.event_id, channel |-> c.args.channel,
     event_type |-> c.args.event_type, content |-> c.args.content,
     sender |-> c.args.sender, replaces |-> c.args.replaces]

\* world.feature_flags: the world has no janus flag
FeatureFlags == {}

\* content.get("type") == "call" (line 283)
IsCall(content) == "type" \in DOMAIN content /\ content.type = "call"

\* content.setdefault("body", {}) (lines 285, 292)
Body(content) == IF "body" \in DOMAIN content THEN content.body ELSE <<>>

\* content["body"][k] = v for the keys of upd; the dict of the caller is changed
SetBody(content, upd) ==
    [k \in DOMAIN content \cup {"body"} |->
        IF k = "body" THEN upd @@ Body(content) ELSE content[k]]

\* the primary key of a new call record, and str(call.id)
NextCallId == Cardinality(BBBCall) + 1

StrId(id) == <<"str", id>>

\* lines 283-294: for a call, the janus type is set, or a call record is
\* created and its id and the bbb type are set in the content
CallsAfter(content) ==
    IF IsCall(content) /\ "janus" \notin FeatureFlags
    THEN BBBCall \cup {[id |-> NextCallId, world |-> "w1"]}
    ELSE BBBCall

ContentAfter(content) ==
    IF ~IsCall(content) THEN content
    ELSE IF "janus" \in FeatureFlags
    THEN SetBody(content, [type |-> "janus"])
    ELSE SetBody(content, [id |-> StrId(NextCallId), type |-> "bbb"])

\* the call frame after lines 283-294
Prepared(c) == [c EXCEPT !.args.content = ContentAfter(c.args.content)]

\* _store_event, lines 281-309, and the branch of create_event on its result
\* (lines 348-358): the insert succeeds, or fails with "already exists" (None),
\* or fails with another error, which is raised to the caller.
store_event_mut(w) ==
    /\ calls[w].pc = "store"
    /\ BBBCall' = CallsAfter(calls[w].args.content)
    /\ ChatEvent' = ChatEvent \cup {EventRow(Prepared(calls[w]))}
    /\ returned' = Append(returned, calls[w].event_id)
    /\ calls' = [calls EXCEPT ![w] =
                    [Prepared(calls[w]) EXCEPT !.attempts = @ + 1, !.pc = "done"]]
    /\ UNCHANGED <<chat_event_id, ncalls, nresets>>
    /\ UNCHANGED <<channel_vars, ChatEventReaction, ChatEventNotification, sent>>

\* ChatEvent.objects.create replaced by a save that updates the row of the id
store_event_upsert(w) ==
    /\ calls[w].pc = "store"
    /\ BBBCall' = CallsAfter(calls[w].args.content)
    /\ ChatEvent' = {e \in ChatEvent : e.id # calls[w].event_id}
                        \cup {EventRow(Prepared(calls[w]))}
    /\ returned' = Append(returned, calls[w].event_id)
    /\ calls' = [calls EXCEPT ![w] =
                    [Prepared(calls[w]) EXCEPT !.attempts = @ + 1, !.pc = "done"]]
    /\ UNCHANGED <<chat_event_id, ncalls, nresets>>
    /\ UNCHANGED <<channel_vars, ChatEventReaction, ChatEventNotification, sent>>

store_event(w) ==
    /\ calls[w].pc = "store"
    /\ BBBCall' = CallsAfter(calls[w].args.content)
    /\ \/ /\ calls[w].event_id \notin EventIds(ChatEvent)
          /\ ChatEvent' = ChatEvent \cup {EventRow(Prepared(calls[w]))}
          /\ returned' = Append(returned, calls[w].event_id)
          /\ calls' = [calls EXCEPT ![w] =
                    [Prepared(calls[w]) EXCEPT !.attempts = @ + 1, !.pc = "done"]]
       \/ /\ calls[w].event_id \in EventIds(ChatEvent)
          /\ calls' = [calls EXCEPT ![w] =
                    [Prepared(calls[w]) EXCEPT !.attempts = @ + 1,
                        !.pc = IF calls[w].retry THEN "fatal" ELSE "heal_max"]]
          /\ UNCHANGED <<ChatEvent, returned>>
       \/ /\ calls' = [calls EXCEPT ![w] =
                    [Prepared(calls[w]) EXCEPT !.attempts = @ + 1, !.pc = "error"]]
          /\ UNCHANGED <<ChatEvent, returned>>
    /\ UNCHANGED <<chat_event_id, ncalls, nresets>>
    /\ UNCHANGED <<channel_vars, ChatEventReaction, ChatEventNotification, sent>>

\* line 352: current_max = await self._get_highest_id()
heal_get_highest_id(w) ==
    /\ calls[w].pc = "heal_max"
    /\ calls' = [calls EXCEPT ![w].current_max = HighestId(ChatEvent),
                              ![w].pc = "heal_set"]
    /\ UNCHANGED <<chat_event_id, ChatEvent, returned, ncalls, nresets>>
    /\ UNCHANGED <<channel_vars, tracker_vars, sent>>

\* lines 353-354: redis.set("chat.event_id", current_max + 1)
heal_set(w) ==
    /\ calls[w].pc = "heal_set"
    /\ chat_event_id' = RedisSet(calls[w].current_max + 1)
    /\ calls' = [calls EXCEPT ![w].pc = "retry"]
    /\ UNCHANGED <<ChatEvent, returned, ncalls, nresets>>
    /\ UNCHANGED <<channel_vars, tracker_vars, sent>>

\* the _retry flag the recursive call is made with (line 356)
RetryFlag_mut == FALSE

RetryFlag == TRUE

\* lines 355-357 and 334-335: the recursive call create_event(channel,
\* event_type, content, sender, _retry=True) increments the counter again;
\* replaces is not passed on.
create_event_retry(w) ==
    /\ calls[w].pc = "retry"
    /\ chat_event_id' = Incr(chat_event_id)
    /\ calls' = [calls EXCEPT ![w].event_id = chat_event_id'.value,
                              ![w].retry = RetryFlag,
                              ![w].args.replaces = None,
                              ![w].pc = AfterIncr(chat_event_id'.value)]
    /\ UNCHANGED <<ChatEvent, returned, ncalls, nresets>>
    /\ UNCHANGED <<channel_vars, tracker_vars, sent>>

\* the call has returned its event or raised; the worker takes the next request
finish_call(w) ==
    /\ calls[w].pc \in {"done", "fatal", "error"}
    /\ calls' = [calls EXCEPT ![w] = IdleCall]
    /\ UNCHANGED <<chat_event_id, ChatEvent, returned, ncalls, nresets>>
    /\ UNCHANGED <<channel_vars, tracker_vars, sent>>

\* "Safety if redis is cleared out" (line 336), "our redis cleared out / failed
\* over" (line 351): the key is lost, or the counter is forced to 0
reset_counter ==
    /\ nresets < MaxResets
    /\ \E p \in BOOLEAN : chat_event_id' = [present |-> p, value |-> 0]
    /\ calls' = [v \in Workers |-> [calls[v] EXCEPT !.alone = FALSE]]
    /\ nresets' = nresets + 1
    /\ UNCHANGED <<ChatEvent, returned, ncalls>>
    /\ UNCHANGED <<channel_vars, tracker_vars, sent>>

\* ------------------------------------------------- channels and memberships
World == "w1"                       \* self.world.id

\* User rows. K is a kiosk, N is anonymous, D is deleted, X belongs to another
\* world; the id Z of the requests below is no user at all.
UserIds == {"A", "B", "C", "D", "K", "N", "X"}
User ==
    [u \in UserIds |->
        [world |-> IF u = "X" THEN "w2" ELSE World,
         deleted |-> (u = "D"),
         type |-> IF u = "K" THEN "kiosk"
                  ELSE IF u = "N" THEN "anonymous" ELSE "person"]]

Members == {"A", "B", "C"}          \* the users memberships are made for

\* the user_ids lists get_or_create_direct_channel is called with
UserIdLists ==
    {<<"A", "B">>, <<"B", "A">>, <<"A", "B", "C">>, <<"A">>, <<"A", "A">>,
     <<"A", "K">>, <<"N", "A">>, <<"D", "A">>, <<"A", "X">>, <<"A", "Z">>}

\* the hide and hide_except arguments it is called with: the caller, A, asks
\* for the channel to be hidden from everybody else (with hide=False every
\* row is created as A's row is here)
HideChoices == {<<TRUE, "A">>}

\* the block relations the user service adds
BlockPairs == {<<"A", "B">>, <<"B", "A">>}

Range(f) == {f[i] : i \in DOMAIN f}

Rows(rows, channel_id, uid) ==
    {m \in rows : m.channel = channel_id /\ m.user = uid}

MemberSet(rows, channel_id) == {m.user : m \in {r \in rows : r.channel = channel_id}}

ChannelIds == {c.id : c \in Channel}

\* the primary key of a new channel row: an id no channel has
NextChannelId == SetMax(ChannelIds) + 1

IdleFrame == [pc |-> "idle", op |-> None, a |-> None]

\* (None, False, []); saved tells whether m.save (line 210) has run
NoResult ==
    [channel |-> 0, created |-> FALSE, users |-> {}, raised |-> None,
     saved |-> FALSE]

\* lines 435-439: User.objects.filter(world_id=self.world.id, id__in=user_ids)
Users(user_ids) ==
    {u \in UserIds : User[u].world = World /\ u \in Range(user_ids)}

BlockedAny_mut(u, users, blk) ==
    \E v \in users \ {u} : <<u, v>> \in blk /\ <<v, u>> \in blk

\* line 444: any(v in u.blocked_users.all() for v in users if v != u)
BlockedAny(u, users, blk) == \E v \in users \ {u} : <<u, v>> \in blk

NotEligible_mut(user_ids, blk) ==
    LET users == Users(user_ids) IN
    \/ Cardinality(users) # Len(user_ids)
    \/ Cardinality(users) < 2
    \/ \E u \in users :
          \/ BlockedAny(u, users, blk)
          \/ User[u].deleted
          \/ User[u].type = "kiosk"

\* lines 440-449: the request is not eligible
NotEligible(user_ids, blk) ==
    LET users == Users(user_ids) IN
    \/ Cardinality(users) # Len(user_ids)
    \/ Cardinality(users) < 2
    \/ \E u \in users :
          \/ BlockedAny(u, users, blk)
          \/ User[u].deleted
          \/ User[u].type \in {"kiosk", "anonymous"}

mcount_match_mut(c, user_ids, rows) ==
    Cardinality({m \in rows : m.channel = c.id /\ m.user \in Range(user_ids)
                              /\ ~m.hidden})

\* lines 454-462: memberships of the channel whose user is requested (the
\* subquery yields NULL, here 0, when there is none)
mcount_match(c, user_ids, rows) ==
    Cardinality({m \in rows : m.channel = c.id /\ m.user \in Range(user_ids)})

mcount_mismatch_mut(c, user_ids, rows) == 0

\* lines 463-472: memberships of the channel whose user is not requested
mcount_mismatch(c, user_ids, rows) ==
    Cardinality({m \in rows : m.channel = c.id /\ m.user \notin Range(user_ids)})

\* lines 473-478: the channels the .get() of the lookup matches
Matching(user_ids, chans, rows) ==
    {c \in chans :
        /\ mcount_mismatch(c, user_ids, rows) = 0
        /\ mcount_match(c, user_ids, rows) = Len(user_ids)
        /\ c.room = None
        /\ c.world = World}

\* The workers run the same code, so a call is given to the first worker
\* that has none in progress.
FreeWorker(w) ==
    /\ frames[w].pc = "idle"
    /\ \A v \in Workers : v < w => frames[v].pc # "idle"

\* the operation that completed, the arguments that identify its request
\* and what its caller gets back
Completed(f, res) ==
    [op |-> f.op,
     a |-> IF f.op = "get_or_create_direct_channel"
           THEN [user_ids |-> f.a.user_ids] ELSE f.a,
     result |-> res]

\* get_or_create_direct_channel, lines 434-481: the eligibility test and the
\* lookup. .get() returns the one match, raises DoesNotExist (the creation
\* follows) or raises MultipleObjectsReturned, which nothing catches.
gocdc_lookup(w, user_ids, hide, hide_except) ==
    /\ FreeWorker(w)
    /\ nops < MaxOps
    /\ nops' = nops + 1
    /\ LET f == [pc |-> "gocdc_create", op |-> "get_or_create_direct_channel",
                 a |-> [user_ids |-> user_ids, hide |-> hide,
                        hide_except |-> hide_except]]
           found == Matching(user_ids, Channel, Membership)
       IN  IF NotEligible(user_ids, blocked)
           THEN /\ last' = Completed(f, NoResult)
                /\ UNCHANGED frames
           ELSE IF Cardinality(found) = 1
           THEN /\ last' = Completed(f,
                        [NoResult EXCEPT
                            !.channel = (CHOOSE c \in found : TRUE).id,
                            !.users = Users(user_ids)])
                /\ UNCHANGED frames
           ELSE IF found = {}
           THEN /\ frames' = [frames EXCEPT ![w] = f]
                /\ UNCHANGED last
           ELSE /\ last' = Completed(f,
                        [NoResult EXCEPT !.raised = "MultipleObjectsReturned"])
                /\ UNCHANGED frames
    /\ UNCHANGED <<Channel, Membership, blocked, nblocks>>
    /\ UNCHANGED <<event_vars, tracker_vars, sent>>

\* lines 482-492: the channel and one membership per user are created, and
\* the transaction commits
gocdc_create(w) ==
    /\ frames[w].pc = "gocdc_create"
    /\ LET a == frames[w].a
           c == NextChannelId
           users == Users(a.user_ids)
       IN  /\ Channel' = Channel \cup {[id |-> c, room |-> None, world |-> World]}
           /\ Membership' = Membership \cup
                  {[channel |-> c, user |-> u, volatile |-> FALSE,
                    hidden |-> (a.hide /\ u # a.hide_except)] : u \in users}
           /\ last' = Completed(frames[w],
                  [NoResult EXCEPT !.channel = c, !.created = TRUE,
                                   !.users = users])
    /\ frames' = [frames EXCEPT ![w] = IdleFrame]
    /\ UNCHANGED <<blocked, nops, nblocks>>
    /\ UNCHANGED <<event_vars, tracker_vars, sent>>

UniqueViolation_mut(rows, channel_id, uid) == FALSE

\* Membership is unique per (channel, user): an insert of a second row for
\* the pair fails with an IntegrityError
UniqueViolation(rows, channel_id, uid) == Rows(rows, channel_id, uid) # {}

ClearVolatile_mut(rows, channel_id, uid, volatile) == rows

\* lines 208-210: an existing volatile membership is made non-volatile when
\* the join asked for is not volatile
ClearVolatile(rows, channel_id, uid, volatile) ==
    IF volatile THEN rows
    ELSE {IF m.channel = channel_id /\ m.user = uid
          THEN [m EXCEPT !.volatile = FALSE] ELSE m : m \in rows}

\* line 208: not created and m.volatile and not volatile
Saves(rows, channel_id, uid, volatile) ==
    ~volatile /\ \E m \in Rows(rows, channel_id, uid) : m.volatile

\* add_channel_user, lines 203-211: the get of get_or_create. An existing row
\* is returned with created=False; otherwise the insert follows.
add_channel_user_get(w, channel_id, user, volatile) ==
    /\ FreeWorker(w)
    /\ nops < MaxOps
    /\ nops' = nops + 1
    /\ LET f == [pc |-> "add_create", op |-> "add_channel_user",
                 a |-> [channel_id |-> channel_id, user |-> user,
                        volatile |-> volatile]]
       IN  IF Rows(Membership, channel_id, user) # {}
           THEN /\ Membership' = ClearVolatile(Membership, channel_id, user, volatile)
                /\ last' = Completed(f, [NoResult EXCEPT !.saved =
                                Saves(Membership, channel_id, user, volatile)])
                /\ UNCHANGED frames
           ELSE /\ frames' = [frames EXCEPT ![w] = f]
                /\ UNCHANGED <<Membership, last>>
    /\ UNCHANGED <<Channel, blocked, nblocks>>
    /\ UNCHANGED <<event_vars, tracker_vars, sent>>

\* the create of get_or_create: the row is inserted with defaults={"volatile":
\* volatile} (created=True), or the insert hits the unique constraint, the row
\* another worker inserted meanwhile is fetched and created is False
add_channel_user_create(w) ==
    /\ frames[w].pc = "add_create"
    /\ LET a == frames[w].a IN
       IF UniqueViolation(Membership, a.channel_id, a.user)
       THEN /\ Membership' = ClearVolatile(Membership, a.channel_id, a.user, a.volatile)
            /\ last' = Completed(frames[w], [NoResult EXCEPT !.saved =
                            Saves(Membership, a.channel_id, a.user, a.volatile)])
       ELSE /\ Membership' = Membership \cup
                   {[channel |-> a.channel_id, user |-> a.user,
                     volatile |-> a.volatile, hidden |-> FALSE]}
            /\ last' = Completed(frames[w], [NoResult EXCEPT !.created = TRUE])
    /\ frames' = [frames EXCEPT ![w] = IdleFrame]
    /\ UNCHANGED <<Channel, blocked, nops, nblocks>>
    /\ UNCHANGED <<event_vars, tracker_vars, sent>>

\* remove_channel_user, lines 213-218: the rows of (channel, user) are deleted
remove_channel_user(w, channel_id, uid) ==
    /\ FreeWorker(w)
    /\ nops < MaxOps
    /\ nops' = nops + 1
    /\ Membership' = Membership \ Rows(Membership, channel_id, uid)
    /\ last' = [op |-> "remove_channel_user",
                a |-> [channel_id |-> channel_id, user |-> uid],
                result |-> NoResult]
    /\ UNCHANGED <<Channel, blocked, frames, nblocks>>
    /\ UNCHANGED <<event_vars, tracker_vars, sent>>

\* line 436: blocked_users is written by the user service: u blocks v
block_user(u, v) ==
    /\ nblocks < MaxBlocks
    /\ u # v
    /\ <<u, v>> \notin blocked
    /\ blocked' = blocked \cup {<<u, v>>}
    /\ nblocks' = nblocks + 1
    /\ UNCHANGED <<Channel, Membership, frames, last, nops>>
    /\ UNCHANGED <<event_vars, tracker_vars, sent>>

Init ==
    /\ chat_event_id = [present |-> FALSE, value |-> 0]
    /\ ChatEvent = {}
    /\ calls = [w \in Workers |-> IdleCall]
    /\ returned = <<>>
    /\ ncalls = 0
    /\ nresets = 0
    /\ Channel = {[id |-> 1, room |-> "R1", world |-> World]}
    /\ Membership = {}
    /\ blocked = {}
    /\ frames = [w \in Workers |-> IdleFrame]
    /\ last = [op |-> None, a |-> None, result |-> NoResult]
    /\ nops = 0
    /\ nblocks = 0
    /\ ChatEventReaction = {}
    /\ ChatEventNotification = {}
    /\ BBBCall = {}
    /\ sent = {}

EventNext ==
    \/ \E w \in Workers : \E a \in EventArgs(w) : create_event(w, a)
    \/ \E w \in Workers : floor_get_highest_id(w)
    \/ \E w \in Workers : floor_set(w)
    \/ \E w \in Workers : store_event(w)
    \/ \E w \in Workers : heal_get_highest_id(w)
    \/ \E w \in Workers : heal_set(w)
    \/ \E w \in Workers : create_event_retry(w)
    \/ \E w \in Workers : finish_call(w)
    \/ reset_counter

EventSpec == Init /\ [][EventNext]_vars

ChannelNext ==
    \/ \E w \in Workers, user_ids \in UserIdLists, h \in HideChoices :
          gocdc_lookup(w, user_ids, h[1], h[2])
    \/ \E w \in Workers : gocdc_create(w)
    \/ \E w \in Workers, c \in ChannelIds, u \in Members, volatile \in BOOLEAN :
          add_channel_user_get(w, c, u, volatile)
    \/ \E w \in Workers : add_channel_user_create(w)
    \/ \E w \in Workers, c \in ChannelIds, u \in Members :
          remove_channel_user(w, c, u)
    \/ \E p \in BlockPairs : block_user(p[1], p[2])

ChannelSpec == Init /\ [][ChannelNext]_vars

\* get_or_create_direct_channel alone, called by the workers concurrently
DirectNext ==
    \/ \E w \in Workers, user_ids \in UserIdLists, h \in HideChoices :
          gocdc_lookup(w, user_ids, h[1], h[2])
    \/ \E w \in Workers : gocdc_create(w)

DirectSpec == Init /\ [][DirectNext]_vars

AllIdle == \A w \in Workers : frames[w].pc = "idle"

\* the same operations, each called when the one before it has completed
SeqChannelNext ==
    \/ /\ AllIdle
       /\ \E w \in Workers, user_ids \in UserIdLists, h \in HideChoices :
             gocdc_lookup(w, user_ids, h[1], h[2])
    \/ \E w \in Workers : gocdc_create(w)
    \/ /\ AllIdle
       /\ \E w \in Workers, c \in ChannelIds, u \in Members, volatile \in BOOLEAN :
             add_channel_user_get(w, c, u, volatile)
    \/ \E w \in Workers : add_channel_user_create(w)
    \/ /\ AllIdle
       /\ \E w \in Workers, c \in ChannelIds, u \in Members :
             remove_channel_user(w, c, u)
    \/ \E p \in BlockPairs : block_user(p[1], p[2])

SeqChannelSpec == Init /\ [][SeqChannelNext]_vars

\* ------------------------------------------- hidden flags of memberships
\* hide_channel_user, lines 220-224: one UPDATE sets hidden on the rows of
\* (channel, user)
hide_channel_user(w, channel_id, uid) ==
    /\ FreeWorker(w)
    /\ nops < MaxOps
    /\ nops' = nops + 1
    /\ Membership' = {IF m.channel = channel_id /\ m.user = uid
                      THEN [m EXCEPT !.hidden = TRUE] ELSE m : m \in Membership}
    /\ last' = [op |-> "hide_channel_user",
                a |-> [channel_id |-> channel_id, user |-> uid],
                result |-> NoResult]
    /\ UNCHANGED <<Channel, blocked, frames, nblocks>>
    /\ UNCHANGED <<event_vars, tracker_vars, sent>>

\* show_channels_to_hidden_users, lines 228-231: the query for the hidden rows
\* of the channel; the loop body runs once per row fetched, and the call
\* returns [] at once when there is none
show_channels_query(w, channel_id) ==
    /\ FreeWorker(w)
    /\ nops < MaxOps
    /\ nops' = nops + 1
    /\ LET rows == {m \in Membership : m.channel = channel_id /\ m.hidden}
           f == [pc |-> "show_save", op |-> "show_channels_to_hidden_users",
                 a |-> [channel_id |-> channel_id, rows |-> rows, u |-> {}]]
       IN  IF rows = {}
           THEN /\ last' = Completed(f, NoResult)
                /\ UNCHANGED frames
           ELSE /\ frames' = [frames EXCEPT ![w] = f]
                /\ UNCHANGED last
    /\ UNCHANGED <<Channel, Membership, blocked, nblocks>>
    /\ UNCHANGED <<event_vars, tracker_vars, sent>>

SaveHidden_mut(rows, m) ==
    {IF n.channel = m.channel /\ n.user = m.user
     THEN [m EXCEPT !.hidden = FALSE] ELSE n : n \in rows}

SaveHidden_anychannel(rows, m) ==
    {IF n.user = m.user THEN [n EXCEPT !.hidden = FALSE] ELSE n : n \in rows}

\* lines 233-234: m.hidden = False; m.save(update_fields=["hidden"]) writes
\* the hidden column of the row and no other column
SaveHidden(rows, m) ==
    {IF n.channel = m.channel /\ n.user = m.user
     THEN [n EXCEPT !.hidden = FALSE] ELSE n : n \in rows}

\* lines 229-235: one turn of the loop for a fetched row m. A save with
\* update_fields that updates no row (the row was deleted meanwhile) raises
\* DatabaseError; after the last row the call returns the users.
show_channels_save(w) ==
    /\ frames[w].pc = "show_save"
    /\ \E m \in frames[w].a.rows :
          LET a == frames[w].a
              rest == a.rows \ {m}
              u == a.u \cup {m.user}
          IN  IF Rows(Membership, m.channel, m.user) = {}
              THEN /\ last' = Completed(frames[w],
                          [NoResult EXCEPT !.raised = "DatabaseError"])
                   /\ frames' = [frames EXCEPT ![w] = IdleFrame]
                   /\ UNCHANGED Membership
              ELSE /\ Membership' = SaveHidden(Membership, m)
                   /\ IF rest = {}
                      THEN /\ last' = Completed(frames[w],
                                  [NoResult EXCEPT !.users = u])
                           /\ frames' = [frames EXCEPT ![w] = IdleFrame]
                      ELSE /\ frames' = [frames EXCEPT
                                  ![w].a = [a EXCEPT !.rows = rest, !.u = u]]
                           /\ UNCHANGED last
    /\ UNCHANGED <<Channel, blocked, nops, nblocks>>
    /\ UNCHANGED <<event_vars, tracker_vars, sent>>

\* joins, leaves, hides and shows in the room channel
FlagNext ==
    \/ \E w \in Workers, u \in Members, volatile \in BOOLEAN :
          add_channel_user_get(w, 1, u, volatile)
    \/ \E w \in Workers : add_channel_user_create(w)
    \/ \E w \in Workers, u \in Members : remove_channel_user(w, 1, u)
    \/ \E w \in Workers, u \in Members : hide_channel_user(w, 1, u)
    \/ \E w \in Workers : show_channels_query(w, 1)
    \/ \E w \in Workers : show_channels_save(w)

\* the room channel with a volatile and a non-volatile member, both of whom
\* have hidden the channel
FlagInit ==
    /\ chat_event_id = [present |-> FALSE, value |-> 0]
    /\ ChatEvent = {}
    /\ calls = [w \in Workers |-> IdleCall]
    /\ returned = <<>>
    /\ ncalls = 0
    /\ nresets = 0
    /\ Channel = {[id |-> 1, room |-> "R1", world |-> World]}
    /\ Membership =
          {[channel |-> 1, user |-> "A", volatile |-> TRUE, hidden |-> TRUE],
           [channel |-> 1, user |-> "B", volatile |-> FALSE, hidden |-> TRUE]}
    /\ blocked = {}
    /\ frames = [w \in Workers |-> IdleFrame]
    /\ last = [op |-> None, a |-> None, result |-> NoResult]
    /\ nops = 0
    /\ nblocks = 0
    /\ ChatEventReaction = {}
    /\ ChatEventNotification = {}
    /\ BBBCall = {}
    /\ sent = {}

FlagSpec == FlagInit /\ [][FlagNext]_vars

\* the channels of these calls: the chats of the rooms R1 and R2
FlagChannels == {1, 2}

\* joins, leaves, hides and shows in the two channels, each called when the
\* one before it has completed
SeqFlagNext ==
    \/ /\ AllIdle
       /\ \E w \in Workers, c \in FlagChannels, u \in Members, volatile \in BOOLEAN :
             add_channel_user_get(w, c, u, volatile)
    \/ \E w \in Workers : add_channel_user_create(w)
    \/ /\ AllIdle
       /\ \E w \in Workers, c \in FlagChannels, u \in Members :
             remove_channel_user(w, c, u)
    \/ /\ AllIdle
       /\ \E w \in Workers, c \in FlagChannels, u \in Members :
             hide_channel_user(w, c, u)
    \/ /\ AllIdle
       /\ \E w \in Workers, c \in FlagChannels : show_channels_query(w, c)
    \/ \E w \in Workers : show_channels_save(w)

\* two room channels; A (volatile) and B have hidden the first, A and C
\* (volatile) the second
SeqFlagInit ==
    /\ chat_event_id = [present |-> FALSE, value |-> 0]
    /\ ChatEvent = {}
    /\ calls = [w \in Workers |-> IdleCall]
    /\ returned = <<>>
    /\ ncalls = 0
    /\ nresets = 0
    /\ Channel = {[id |-> 1, room |-> "R1", world |-> World],
                  [id |-> 2, room |-> "R2", world |-> World]}
    /\ Membership =
          {[channel |-> 1, user |-> "A", volatile |-> TRUE, hidden |-> TRUE],
           [channel |-> 1, user |-> "B", volatile |-> FALSE, hidden |-> TRUE],
           [channel |-> 1, user |-> "C", volatile |-> FALSE, hidden |-> FALSE],
           [channel |-> 2, user |-> "A", volatile |-> FALSE, hidden |-> TRUE],
           [channel |-> 2, user |-> "C", volatile |-> TRUE, hidden |-> TRUE]}
    /\ blocked = {}
    /\ frames = [w \in Workers |-> IdleFrame]
    /\ last = [op |-> None, a |-> None, result |-> NoResult]
    /\ nops = 0
    /\ nblocks = 0
    /\ ChatEventReaction = {}
    /\ ChatEventNotification = {}
    /\ BBBCall = {}
    /\ sent = {}

SeqFlagSpec == SeqFlagInit /\ [][SeqFlagNext]_vars

\* ------------------------------------------------------------ reactions
\* the events, reaction symbols and senders add_reaction and remove_reaction
\* are called with
ReactionEvents == {1, 2}

Reactions == {"+1", "heart"}

ReactionSenders == {"A", "B"}

\* filter(chat_event=event, reaction=reaction, sender=user), lines 362-364
\* and 369-371
ReactionRows(rows, event, reaction, user) ==
    {x \in rows : x.chat_event = event /\ x.reaction = reaction /\ x.sender = user}

NextReactionId == HighestId(ChatEventReaction) + 1

\* lines 365 and 372: the event comes back serialized with its reactions
SerializedReactions(rows, event) ==
    {<<x.reaction, x.sender>> : x \in {y \in rows : y.chat_event = event}}

\* what a reaction call gives back: the exception raised if any, the
\* reactions of the serialized event, and the rows its first query matched
ReactionResult(raised, rows, event, matched) ==
    [raised |-> raised, reactions |-> SerializedReactions(rows, event),
     matched |-> matched]

\* add_reaction, lines 368-371: the get of update_or_create. One row: it is
\* saved as it is (there are no defaults); none: the create follows; several:
\* MultipleObjectsReturned.
add_reaction_get(w, event, reaction, user) ==
    /\ FreeWorker(w)
    /\ nops < MaxOps
    /\ nops' = nops + 1
    /\ LET f == [pc |-> "reaction_create", op |-> "add_reaction",
                 a |-> [event |-> event, reaction |-> reaction, user |-> user]]
           n == Cardinality(ReactionRows(ChatEventReaction, event, reaction, user))
       IN  IF n = 0
           THEN /\ frames' = [frames EXCEPT ![w] = f]
                /\ UNCHANGED last
           ELSE /\ last' = Completed(f, ReactionResult(
                        IF n = 1 THEN None ELSE "MultipleObjectsReturned",
                        ChatEventReaction, event, n))
                /\ UNCHANGED frames
    /\ UNCHANGED <<Channel, Membership, blocked, nblocks>>
    /\ UNCHANGED <<ChatEventReaction, ChatEventNotification, BBBCall, sent>>
    /\ UNCHANGED event_vars

ReactionUniqueViolation_mut(rows, event, reaction, user) == FALSE

\* ChatEventReaction is unique per (event, sender, reaction): the insert of a
\* second row for the triple fails with an IntegrityError
ReactionUniqueViolation(rows, event, reaction, user) ==
    ReactionRows(rows, event, reaction, user) # {}

\* lines 369-372: the create of update_or_create inserts the row, or hits the
\* unique constraint and fetches the row another worker has inserted
add_reaction_create(w) ==
    /\ frames[w].pc = "reaction_create"
    /\ LET a == frames[w].a IN
       /\ ChatEventReaction' =
             IF ReactionUniqueViolation(ChatEventReaction, a.event, a.reaction, a.user)
             THEN ChatEventReaction
             ELSE ChatEventReaction \cup
                     {[id |-> NextReactionId, chat_event |-> a.event,
                       reaction |-> a.reaction, sender |-> a.user]}
       /\ last' = Completed(frames[w],
                     ReactionResult(None, ChatEventReaction', a.event, 0))
    /\ frames' = [frames EXCEPT ![w] = IdleFrame]
    /\ UNCHANGED <<Channel, Membership, blocked, nops, nblocks>>
    /\ UNCHANGED <<ChatEventNotification, BBBCall, sent>>
    /\ UNCHANGED event_vars

\* remove_reaction, lines 361-365: the matching rows are deleted
remove_reaction(w, event, reaction, user) ==
    /\ FreeWorker(w)
    /\ nops < MaxOps
    /\ nops' = nops + 1
    /\ LET found == ReactionRows(ChatEventReaction, event, reaction, user) IN
       /\ ChatEventReaction' = ChatEventReaction \ found
       /\ last' = [op |-> "remove_reaction",
                   a |-> [event |-> event, reaction |-> reaction, user |-> user],
                   result |-> ReactionResult(None, ChatEventReaction', event,
                                             Cardinality(found))]
    /\ UNCHANGED <<Channel, Membership, blocked, frames, nblocks>>
    /\ UNCHANGED <<ChatEventNotification, BBBCall, sent>>
    /\ UNCHANGED event_vars

ReactionNext ==
    \/ \E w \in Workers, e \in ReactionEvents, r \in Reactions, u \in ReactionSenders :
          add_reaction_get(w, e, r, u)
    \/ \E w \in Workers : add_reaction_create(w)
    \/ \E w \in Workers, e \in ReactionEvents, r \in Reactions, u \in ReactionSenders :
          remove_reaction(w, e, r, u)

ReactionSpec == Init /\ [][ReactionNext]_vars

\* -------------------------------------------------------- notifications
\* the recipients, recipient lists and max_id values of the notification calls
Recipients == {"A", "B"}

RecipientLists == {<<"A">>, <<"A", "B">>}

MaxIds == {1, 2, 3}

\* chat_event__channel_id: the channel of the event a notification is for
EventChannel(log, event_id) == (CHOOSE e \in log : e.id = event_id).channel

\* str(n["chat_event__channel_id"]), line 389: the key of a channel in the
\* mapping of counts
Str(channel_id) == <<"str", channel_id>>

NotificationsOf(rows, log, user_id, channel_id) ==
    {n \in rows : n.recipient = user_id
                  /\ EventChannel(log, n.chat_event) = channel_id}

\* get_notification_counts, lines 384-390: the grouped count; a channel
\* without a notification for the user has no key
NotificationCounts(rows, log, user_id) ==
    LET chans == {EventChannel(log, n.chat_event) :
                     n \in {x \in rows : x.recipient = user_id}}
    IN  [k \in {Str(c) : c \in chans} |->
            Cardinality(NotificationsOf(rows, log, user_id, k[2]))]

get_notification_counts(w, user_id) ==
    /\ FreeWorker(w)
    /\ nops < MaxOps
    /\ nops' = nops + 1
    /\ last' = [op |-> "get_notification_counts",
                a |-> [user_id |-> user_id],
                result |-> [counts |-> NotificationCounts(
                               ChatEventNotification, ChatEvent, user_id)]]
    /\ UNCHANGED <<Channel, Membership, blocked, frames, nblocks>>
    /\ UNCHANGED <<ChatEventReaction, ChatEventNotification, BBBCall, sent>>
    /\ UNCHANGED event_vars

\* store_notification, lines 404-408: bulk_create of one row per entry of
\* user_ids, for an event of the log
store_notification(w, event_id, user_ids) ==
    /\ FreeWorker(w)
    /\ nops < MaxOps
    /\ nops' = nops + 1
    /\ event_id \in EventIds(ChatEvent)
    /\ ChatEventNotification' = ChatEventNotification \cup
          {[id |-> HighestId(ChatEventNotification) + i,
            chat_event |-> event_id, recipient |-> user_ids[i]] :
              i \in 1..Len(user_ids)}
    /\ last' = [op |-> "store_notification",
                a |-> [event_id |-> event_id, user_ids |-> user_ids],
                result |-> [raised |-> None]]
    /\ UNCHANGED <<Channel, Membership, blocked, frames, nblocks>>
    /\ UNCHANGED <<ChatEventReaction, BBBCall, sent>>
    /\ UNCHANGED event_vars

RemoveFilter_mut(rows, log, user_id, channel_id, max_id) ==
    {n \in rows : /\ n.chat_event < max_id
                  /\ EventChannel(log, n.chat_event) = channel_id
                  /\ n.recipient = user_id}

RemoveFilter_anyuser(rows, log, user_id, channel_id, max_id) ==
    {n \in rows : /\ n.chat_event <= max_id
                  /\ EventChannel(log, n.chat_event) = channel_id}

\* lines 423-427: filter(chat_event_id__lte=max_id,
\* chat_event__channel_id=channel_id, recipient_id=user_id)
RemoveFilter(rows, log, user_id, channel_id, max_id) ==
    {n \in rows : /\ n.chat_event <= max_id
                  /\ EventChannel(log, n.chat_event) = channel_id
                  /\ n.recipient = user_id}

\* remove_notifications, lines 411-428: the rows are deleted and the call
\* returns deleted_count > 0
remove_notifications(w, user_id, channel_id, max_id) ==
    /\ FreeWorker(w)
    /\ nops < MaxOps
    /\ nops' = nops + 1
    /\ LET found == RemoveFilter(ChatEventNotification, ChatEvent, user_id,
                                 channel_id, max_id) IN
       /\ ChatEventNotification' = ChatEventNotification \ found
       /\ last' = [op |-> "remove_notifications",
                   a |-> [user_id |-> user_id, channel_id |-> channel_id,
                          max_id |-> max_id],
                   result |-> [deleted |-> Cardinality(found) > 0]]
    /\ UNCHANGED <<Channel, Membership, blocked, frames, nblocks>>
    /\ UNCHANGED <<ChatEventReaction, BBBCall, sent>>
    /\ UNCHANGED event_vars

NotificationNext ==
    \/ \E w \in Workers, u \in Recipients : get_notification_counts(w, u)
    \/ \E w \in Workers, e \in EventIds(ChatEvent), l \in RecipientLists :
          store_notification(w, e, l)
    \/ \E w \in Workers, u \in Recipients, c \in EventChannels, m \in MaxIds :
          remove_notifications(w, u, c, m)

\* three events are in the log: 1 and 3 in channel r1, 2 in channel r2
NotificationInit ==
    /\ chat_event_id = [present |-> TRUE, value |-> 3]
    /\ ChatEvent =
          {[id |-> i, channel |-> IF i = 2 THEN "r2" ELSE "r1",
            event_type |-> "channel.message", content |-> [type |-> "text"],
            sender |-> "A", replaces |-> None] : i \in 1..3}
    /\ calls = [w \in Workers |-> IdleCall]
    /\ returned = <<1, 2, 3>>
    /\ ncalls = 3
    /\ nresets = 0
    /\ Channel = {[id |-> 1, room |-> "R1", world |-> World]}
    /\ Membership = {}
    /\ blocked = {}
    /\ frames = [w \in Workers |-> IdleFrame]
    /\ last = [op |-> None, a |-> None, result |-> NoResult]
    /\ nops = 0
    /\ nblocks = 0
    /\ ChatEventReaction = {}
    /\ ChatEventNotification = {}
    /\ BBBCall = {}
    /\ sent = {}

NotificationSpec == NotificationInit /\ [][NotificationNext]_vars

\* ---------------------------------------------------------- forced joins
\* Room rows: the rooms R1, R2 and R3 have force_join set
RoomIds == {"R1", "R2", "R3", "R4"}

Room == [r \in RoomIds |-> [force_join |-> (r # "R4")]]

\* the users enforce_forced_joins is run for, and the channels they leave
ForcedUsers == {"A", "B"}

LeftChannels == {1, 2}

\* user.profile: A has a display name, B's is empty
Profile ==
    [u \in ForcedUsers |->
        [display_name |-> IF u = "A" THEN "Ann" ELSE ""]]

\* profile.get(key): None when the key is missing
ProfileGet(profile, key) == IF key \in DOMAIN profile THEN profile[key] ELSE None

\* "not x" of line 553 is true of None and of the empty string
Falsy_mut(x) == FALSE

Falsy(x) == x = None \/ x = ""

HasPermission_mut(user, room) == TRUE

\* the answers of the permission oracle for ROOM_CHAT_JOIN (lines 560-564):
\* A may join the chats of R1, R3 and R4 and B the chat of R2
RoomChatJoin == {<<"A", "R1">>, <<"A", "R3">>, <<"A", "R4">>, <<"B", "R2">>}

HasPermission(user, room) == <<user, room>> \in RoomChatJoin

RoomOf(channel_id) == (CHOOSE c \in Channel : c.id = channel_id).room

\* get_channels_to_join_forced, lines 522-537: the channels of the world whose
\* room has force_join and in which the user has no non-volatile membership
ChannelsToJoinForced(user, chans, rows) ==
    {c.id : c \in {x \in chans :
        /\ x.world = World
        /\ x.room # None
        /\ Room[x.room].force_join
        /\ ~\E m \in rows : m.channel = x.id /\ m.user = user /\ ~m.volatile}}

MemberEvent_mut(channel_id, user) ==
    [channel |-> channel_id, event_type |-> "channel.member",
     content |-> [membership |-> "join", user |-> user], sender |-> None,
     replaces |-> None]

\* the arguments of the create_event call of lines 569-579
MemberEvent(channel_id, user) ==
    [channel |-> channel_id, event_type |-> "channel.member",
     content |-> [membership |-> "join", user |-> user], sender |-> user,
     replaces |-> None]

ENFORCE == "enforce_forced_joins"

\* what a run gives its caller (nothing, or the exception of create_event),
\* with the channels it created a membership in
EnforceResult(raised, a) == [raised |-> raised, joined |-> a.joined]

\* line 559: the loop goes to the next channel, or the run ends
EnforceNextTurn(w, a) ==
    IF a.rest = {}
    THEN /\ frames' = [frames EXCEPT ![w] = IdleFrame]
         /\ last' = Completed([frames[w] EXCEPT !.a = a], EnforceResult(None, a))
    ELSE /\ frames' = [frames EXCEPT ![w] = [pc |-> "enforce_loop",
                                             op |-> ENFORCE, a |-> a]]
         /\ UNCHANGED last

\* the user is a non-volatile member of every force-join channel of the world
\* that the oracle lets them join
AlreadyJoined(user, chans, rows) ==
    \A c \in chans :
        (/\ c.world = World
         /\ c.room # None
         /\ Room[c.room].force_join
         /\ <<user, c.room>> \in RoomChatJoin)
        => \E m \in rows : m.channel = c.id /\ m.user = user /\ ~m.volatile

\* enforce_forced_joins, lines 553-557: the display name test and the query
\* for the channels to join
enforce_forced_joins(w, user) ==
    /\ FreeWorker(w)
    /\ nops < MaxOps
    /\ nops' = nops + 1
    /\ LET todo == ChannelsToJoinForced(user, Channel, Membership)
           a == [user |-> user, c_to_join |-> todo, rest |-> todo,
                 channel |-> 0, joined |-> {},
                 already |-> AlreadyJoined(user, Channel, Membership)]
           f == [pc |-> "enforce_loop", op |-> ENFORCE, a |-> a]
       IN  IF Falsy(ProfileGet(Profile[user], "display_name")) \/ todo = {}
           THEN /\ last' = Completed(f, EnforceResult(None, a))
                /\ UNCHANGED frames
           ELSE /\ frames' = [frames EXCEPT ![w] = f]
                /\ UNCHANGED last
    /\ UNCHANGED <<Channel, Membership, blocked, nblocks>>
    /\ UNCHANGED <<event_vars, tracker_vars, sent>>

\* lines 559-565: the next channel of c_to_join, in the order the query gave,
\* and the oracle's answer for its room; a denial goes on to the next channel
enforce_has_permission(w) ==
    /\ frames[w].pc = "enforce_loop"
    /\ \E c \in frames[w].a.rest :
          LET a == [frames[w].a EXCEPT !.rest = @ \ {c}, !.channel = c] IN
          IF HasPermission(a.user, RoomOf(c))
          THEN /\ frames' = [frames EXCEPT ![w] = [pc |-> "enforce_add",
                                                   op |-> ENFORCE, a |-> a]]
               /\ UNCHANGED last
          ELSE EnforceNextTurn(w, a)
    /\ UNCHANGED <<Channel, Membership, blocked, nops, nblocks>>
    /\ UNCHANGED <<event_vars, tracker_vars, sent>>

\* line 567 and lines 203-211: add_channel_user(channel.id, user,
\* volatile=False), the get of get_or_create. joined is False for a row that
\* exists.
enforce_add_get(w) ==
    /\ frames[w].pc = "enforce_add"
    /\ LET a == frames[w].a IN
       IF Rows(Membership, a.channel, a.user) # {}
       THEN /\ Membership' = ClearVolatile(Membership, a.channel, a.user, FALSE)
            /\ EnforceNextTurn(w, a)
       ELSE /\ frames' = [frames EXCEPT ![w].pc = "enforce_add_create"]
            /\ UNCHANGED <<Membership, last>>
    /\ UNCHANGED <<Channel, blocked, nops, nblocks>>
    /\ UNCHANGED <<event_vars, tracker_vars, sent>>

\* the create of get_or_create: joined is True when the row was inserted
enforce_add_create(w) ==
    /\ frames[w].pc = "enforce_add_create"
    /\ LET a == frames[w].a IN
       IF UniqueViolation(Membership, a.channel, a.user)
       THEN /\ Membership' = ClearVolatile(Membership, a.channel, a.user, FALSE)
            /\ EnforceNextTurn(w, a)
       ELSE /\ Membership' = Membership \cup
                   {[channel |-> a.channel, user |-> a.user,
                     volatile |-> FALSE, hidden |-> FALSE]}
            /\ frames' = [frames EXCEPT ![w].pc = "enforce_event",
                                        ![w].a.joined = @ \cup {a.channel}]
            /\ UNCHANGED last
    /\ UNCHANGED <<Channel, blocked, nops, nblocks>>
    /\ UNCHANGED <<event_vars, tracker_vars, sent>>

\* lines 568-579: if joined, create_event is called for the join
enforce_create_event(w) ==
    /\ frames[w].pc = "enforce_event"
    /\ create_event(w, MemberEvent(frames[w].a.channel, frames[w].a.user))

\* lines 580-589: create_event has returned the event, which is sent to the
\* channel's group, the channel list is broadcast and the unread set is
\* written; or create_event has raised, and so does the run
enforce_event_done(w) ==
    /\ frames[w].pc = "enforce_event"
    /\ calls[w].pc \in {"done", "fatal", "error"}
    /\ calls' = [calls EXCEPT ![w] = IdleCall]
    /\ LET a == frames[w].a IN
       IF calls[w].pc = "done"
       THEN /\ sent' = sent \cup {[channel |-> a.channel, user |-> a.user,
                                   event |-> calls[w].event_id]}
            /\ EnforceNextTurn(w, a)
       ELSE /\ frames' = [frames EXCEPT ![w] = IdleFrame]
            /\ last' = Completed(frames[w], EnforceResult(calls[w].pc, a))
            /\ UNCHANGED sent
    /\ UNCHANGED <<Channel, Membership, blocked, nops, nblocks>>
    /\ UNCHANGED <<chat_event_id, ChatEvent, returned, ncalls, nresets>>
    /\ UNCHANGED tracker_vars

ForcedNext ==
    \/ \E w \in Workers, u \in ForcedUsers : enforce_forced_joins(w, u)
    \/ \E w \in Workers : enforce_has_permission(w)
    \/ \E w \in Workers : enforce_add_get(w)
    \/ \E w \in Workers : enforce_add_create(w)
    \/ \E w \in Workers : enforce_create_event(w)
    \/ \E w \in Workers : store_event(w)
    \/ \E w \in Workers : enforce_event_done(w)
    \/ \E w \in Workers, c \in LeftChannels : remove_channel_user(w, c, "A")

\* The chats of the rooms R1 to R4; A is in the chat of R3 as a volatile
\* member. One message is in the
\* log and the counter agrees with the log: with no counter reset in these
\* runs, create_event takes neither the floor branch nor the self-heal branch.
ForcedInit ==
    /\ chat_event_id = [present |-> TRUE, value |-> 1]
    /\ ChatEvent = {[id |-> 1, channel |-> 4, event_type |-> "channel.message",
                     content |-> [type |-> "text"], sender |-> "A", replaces |-> None]}
    /\ calls = [w \in Workers |-> IdleCall]
    /\ returned = <<1>>
    /\ ncalls = 1
    /\ nresets = 0
    /\ Channel = {[id |-> i, room |-> <<"R1", "R2", "R3", "R4">>[i],
                   world |-> World] : i \in 1..4}
    /\ Membership =
          {[channel |-> 3, user |-> "A", volatile |-> TRUE, hidden |-> FALSE]}
    /\ blocked = {}
    /\ frames = [w \in Workers |-> IdleFrame]
    /\ last = [op |-> None, a |-> None, result |-> NoResult]
    /\ nops = 0
    /\ nblocks = 0
    /\ ChatEventReaction = {}
    /\ ChatEventNotification = {}
    /\ BBBCall = {}
    /\ sent = {}

ForcedSpec == ForcedInit /\ [][ForcedNext]_vars

\* runs of enforce_forced_joins alone, by the workers concurrently (the two
\* connections of a user), with no leave in between
ConcurrentForcedNext ==
    \/ \E w \in Workers, u \in ForcedUsers : enforce_forced_joins(w, u)
    \/ \E w \in Workers : enforce_has_permission(w)
    \/ \E w \in Workers : enforce_add_get(w)
    \/ \E w \in Workers : enforce_add_create(w)
    \/ \E w \in Workers : enforce_create_event(w)
    \/ \E w \in Workers : store_event(w)
    \/ \E w \in Workers : enforce_event_done(w)

ConcurrentForcedSpec == ForcedInit /\ [][ConcurrentForcedNext]_vars

\* ------------------------------------------------- the channels of a user
\* the values of the optional arguments is_volatile and is_hidden
OptionalBools == {None, "False", "True"}

FilterOn_mut(opt, value) == opt = None \/ opt = "False" \/ value

\* lines 109-112: the filter on a column is made when the argument is not None
FilterOn(opt, value) == opt = None \/ ((opt = "True") <=> value)

\* lines 83-86 and 313-315: the events of the channel, channel.member excluded
NonMemberEvents(log, channel_id) ==
    {e \in log : e.channel = channel_id /\ e.event_type # "channel.member"}

\* lines 82-92 and line 117: max_id, the Max("id") of these events, which is
\* NULL when there is none, and m.max_id or 0
MaxIdOrZero(log, channel_id) == HighestId(NonMemberEvents(log, channel_id))

\* lines 77-80 and 109-112: the memberships the query lists
ListedMemberships(rows, chans, user_id, is_volatile, is_hidden) ==
    {m \in rows :
        /\ \E c \in chans : c.id = m.channel /\ c.world = World
        /\ m.user = user_id
        /\ FilterOn(is_hidden, m.hidden)
        /\ FilterOn(is_volatile, m.volatile)}

\* lines 114-126: the entry of a membership; a channel without a room has
\* the members of the channel in it
ChannelEntry(m, rows, chans, log) ==
    LET r == [id |-> Str(m.channel),
              unread_pointer |-> MaxIdOrZero(log, m.channel)]
    IN  IF RoomOf(m.channel) = None
        THEN [members |-> MemberSet(rows, m.channel)] @@ r
        ELSE r

LIST == "get_channels_for_user"

\* get_channels_for_user, lines 75-127
get_channels_for_user(w, user_id, is_volatile, is_hidden) ==
    /\ FreeWorker(w)
    /\ nops < MaxOps
    /\ nops' = nops + 1
    /\ last' = [op |-> LIST,
                a |-> [user_id |-> user_id, is_volatile |-> is_volatile,
                       is_hidden |-> is_hidden],
                result |-> [channels |->
                    {ChannelEntry(m, Membership, Channel, ChatEvent) :
                        m \in ListedMemberships(Membership, Channel, user_id,
                                                is_volatile, is_hidden)}]]
    /\ UNCHANGED <<Channel, Membership, blocked, frames, nblocks>>
    /\ UNCHANGED <<event_vars, tracker_vars, sent>>

\* get_highest_nonmember_id_in_channel, lines 311-318
get_highest_nonmember_id_in_channel(w, channel_id) ==
    /\ FreeWorker(w)
    /\ nops < MaxOps
    /\ nops' = nops + 1
    /\ last' = [op |-> "get_highest_nonmember_id_in_channel",
                a |-> [channel_id |-> channel_id],
                result |-> [id |-> MaxIdOrZero(ChatEvent, channel_id)]]
    /\ UNCHANGED <<Channel, Membership, blocked, frames, nblocks>>
    /\ UNCHANGED <<event_vars, tracker_vars, sent>>

\* the users and channels of these calls, and the events created meanwhile
ListUsers == {"A"}

ListChannels == {1, 2, 3}

ListArgs ==
    [channel : {1}, event_type : {"channel.message", "channel.member"},
     content : {[type |-> "text"]}, sender : {"B"}, replaces : {None}]

ListNext ==
    \/ \E w \in Workers, u \in ListUsers, v \in OptionalBools, h \in OptionalBools :
          get_channels_for_user(w, u, v, h)
    \/ \E w \in Workers, c \in ListChannels :
          get_highest_nonmember_id_in_channel(w, c)
    \/ \E w \in Workers, c \in ListChannels : hide_channel_user(w, c, "A")
    \/ \E w \in Workers, volatile \in BOOLEAN :
          add_channel_user_get(w, 2, "A", volatile)
    \/ \E w \in Workers : add_channel_user_create(w)
    \/ \E a \in ListArgs : create_event(1, a)
    \/ store_event(1)

\* The chats of the rooms R1 and R2 and a direct channel of A and B. A is a
\* member of the first and has not joined the second. The log has a message
\* and a join in the first chat and a join in the second, and the counter
\* agrees with the log.
ListInit ==
    /\ chat_event_id = [present |-> TRUE, value |-> 3]
    /\ ChatEvent =
          {[id |-> 1, channel |-> 1, event_type |-> "channel.message",
            content |-> [type |-> "text"], sender |-> "A", replaces |-> None],
           [id |-> 2, channel |-> 1, event_type |-> "channel.member",
            content |-> [type |-> "text"], sender |-> "A", replaces |-> None],
           [id |-> 3, channel |-> 2, event_type |-> "channel.member",
            content |-> [type |-> "text"], sender |-> "A", replaces |-> None]}
    /\ calls = [w \in Workers |-> IdleCall]
    /\ returned = <<1, 2, 3>>
    /\ ncalls = 0
    /\ nresets = 0
    /\ Channel = {[id |-> 1, room |-> "R1", world |-> World],
                  [id |-> 2, room |-> "R2", world |-> World],
                  [id |-> 3, room |-> None, world |-> World]}
    /\ Membership =
          {[channel |-> 1, user |-> "A", volatile |-> FALSE, hidden |-> FALSE],
           [channel |-> 3, user |-> "A", volatile |-> FALSE, hidden |-> FALSE],
           [channel |-> 3, user |-> "B", volatile |-> FALSE, hidden |-> FALSE]}
    /\ blocked = {}
    /\ frames = [w \in Workers |-> IdleFrame]
    /\ last = [op |-> None, a |-> None, result |-> NoResult]
    /\ nops = 0
    /\ nblocks = 0
    /\ ChatEventReaction = {}
    /\ ChatEventNotification = {}
    /\ BBBCall = {}
    /\ sent = {}

ListSpec == ListInit /\ [][ListNext]_vars

\* ------------------------------------------------------------ get_last_id
RECURSIVE Digits(_)
\* the decimal digits redis keeps an integer as
Digits(n) == IF n < 10 THEN <<n>> ELSE Append(Digits(n \div 10), n % 10)

RECURSIVE DecodeInt(_)
\* int(rval.decode()), line 328
DecodeInt(b) ==
    IF Len(b) = 1 THEN b[1]
    ELSE 10 * DecodeInt(SubSeq(b, 1, Len(b) - 1)) + b[Len(b)]

\* redis.get("chat.event_id"), line 326: the bytes of the value, or None
RedisGet(key) ==
    IF key.present THEN [nil |-> FALSE, bytes |-> Digits(key.value)]
    ELSE [nil |-> TRUE, bytes |-> <<>>]

Truthy_mut(rval) == ~rval.nil /\ DecodeInt(rval.bytes) # 0

\* "if rval", line 327: None and empty bytes are false, b"0" is true
Truthy(rval) == ~rval.nil /\ Len(rval.bytes) > 0

\* get_last_id, lines 324-328: the counter is read and returned if there
get_last_id(w) ==
    /\ FreeWorker(w)
    /\ nops < MaxOps
    /\ nops' = nops + 1
    /\ LET rval == RedisGet(chat_event_id)
           f == [pc |-> "last_id_highest", op |-> "get_last_id", a |-> None]
       IN  IF Truthy(rval)
           THEN /\ last' = Completed(f, [value |-> DecodeInt(rval.bytes)])
                /\ UNCHANGED frames
           ELSE /\ frames' = [frames EXCEPT ![w] = f]
                /\ UNCHANGED last
    /\ UNCHANGED <<Channel, Membership, blocked, nblocks>>
    /\ UNCHANGED <<event_vars, tracker_vars, sent>>

\* line 329: return await self._get_highest_id()
get_last_id_highest(w) ==
    /\ frames[w].pc = "last_id_highest"
    /\ last' = Completed(frames[w], [value |-> HighestId(ChatEvent)])
    /\ frames' = [frames EXCEPT ![w] = IdleFrame]
    /\ UNCHANGED <<Channel, Membership, blocked, nops, nblocks>>
    /\ UNCHANGED <<event_vars, tracker_vars, sent>>

\* get_last_id calls of the workers, while one of them stores events and the
\* counter is reset
LastIdNext ==
    \/ \E a \in EventArgs(1) : create_event(1, a)
    \/ floor_get_highest_id(1)
    \/ floor_set(1)
    \/ store_event(1)
    \/ heal_get_highest_id(1)
    \/ heal_set(1)
    \/ create_event_retry(1)
    \/ finish_call(1)
    \/ reset_counter
    \/ \E w \in Workers : get_last_id(w)
    \/ \E w \in Workers : get_last_id_highest(w)

LastIdSpec == Init /\ [][LastIdNext]_vars

\* --------------------------------------------- self-heal after one reset
\* create_event calls of the workers, one call each, with no further reset
HealNext ==
    \/ \E w \in Workers : \E a \in EventArgs(w) : create_event(w, a)
    \/ \E w \in Workers : floor_get_highest_id(w)
    \/ \E w \in Workers : floor_set(w)
    \/ \E w \in Workers : store_event(w)
    \/ \E w \in Workers : heal_get_highest_id(w)
    \/ \E w \in Workers : heal_set(w)
    \/ \E w \in Workers : create_event_retry(w)

\* The counter has just been reset, once; the log holds the events 1 and 2
\* that were stored before.
HealInit ==
    /\ chat_event_id \in {[present |-> p, value |-> 0] : p \in BOOLEAN}
    /\ ChatEvent =
          {[id |-> i, channel |-> "r1", event_type |-> "channel.message",
            content |-> [type |-> "text"], sender |-> "A", replaces |-> None] : i \in 1..2}
    /\ calls = [w \in Workers |-> IdleCall]
    /\ returned = <<>>
    /\ ncalls = 0
    /\ nresets = 1
    /\ Channel = {[id |-> 1, room |-> "R1", world |-> World]}
    /\ Membership = {}
    /\ blocked = {}
    /\ frames = [w \in Workers |-> IdleFrame]
    /\ last = [op |-> None, a |-> None, result |-> NoResult]
    /\ nops = 0
    /\ nblocks = 0
    /\ ChatEventReaction = {}
    /\ ChatEventNotification = {}
    /\ BBBCall = {}
    /\ sent = {}

HealSpec == HealInit /\ [][HealNext]_vars

\* ------------------------------------ self-heal of calls and replacements
\* the arguments of these calls: a text message or a call, which may replace
\* the event 1 (replaces is the key of that event, or None)
RetryArgs(w) ==
    [channel : {ChannelOf(w)}, event_type : {"channel.message"},
     content : {[type |-> "text"], [type |-> "call"]}, sender : EventSenders,
     replaces : {None, "1"}]

RetryNext ==
    \/ \E w \in Workers : \E a \in RetryArgs(w) : create_event(w, a)
    \/ \E w \in Workers : floor_get_highest_id(w)
    \/ \E w \in Workers : floor_set(w)
    \/ \E w \in Workers : store_event(w)
    \/ \E w \in Workers : heal_get_highest_id(w)
    \/ \E w \in Workers : heal_set(w)
    \/ \E w \in Workers : create_event_retry(w)

RetrySpec == HealInit /\ [][RetryNext]_vars

\* ------------------------------------------------------- claims on events
Terminal == {"done", "fatal", "error"}

\* C1: no two successful create_event calls return the same id, and the
\* durable log never holds two events with the same id, whatever the
\* interleaving of the workers' calls and of counter resets.
C1_UniqueIds ==
    /\ \A e1, e2 \in ChatEvent : e1.id = e2.id => e1 = e2
    /\ \A i, j \in 1..Len(returned) : returned[i] = returned[j] => i = j

\* C1 witness: after a counter reset, a call that collided and healed has
\* stored its event while two calls in all have returned.
C1_Witness ==
    /\ nresets >= 1
    /\ Len(returned) >= 2
    /\ \E w \in Workers : calls[w].pc = "done" /\ calls[w].retry

\* C2 (as claimed): a successful call returns an id greater than every id
\* that had been returned before the call first incremented the counter.
C2_IncreasingInAllocationOrder ==
    \A w \in Workers :
        calls[w].pc = "done" => calls[w].event_id > calls[w].seen

\* C3 (as claimed): a call started with the counter cleared, the log's
\* highest id N >= 1 and no other caller active, and left alone until it
\* ends, stores its event under an id greater than N.
C3_SelfHealAboveLog ==
    \A w \in Workers :
        (calls[w].alone /\ calls[w].pc \in {"done", "fatal"}) =>
            (calls[w].pc = "done" /\ calls[w].event_id > calls[w].floor)

\* C4: a call makes at most two insert attempts; a collision of the first
\* attempt leads to the reset-and-retry path, a collision of the retry to the
\* fatal error and to no further attempt.
C4_AtMostTwoInserts ==
    \A w \in Workers :
        /\ calls[w].attempts <= 2
        /\ calls[w].attempts = 2 => calls[w].retry /\ calls[w].pc \in Terminal
        /\ calls[w].pc = "fatal" => calls[w].attempts = 2
        /\ calls[w].pc \in {"heal_max", "heal_set", "retry"} =>
               calls[w].attempts = 1 /\ ~calls[w].retry

\* C4 witness: a retry collided as well and the call ended with the fatal error.
C4_Witness == \E w \in Workers : calls[w].pc = "fatal" /\ calls[w].attempts = 2

\* ----------------------------------------- claims on channels, memberships
DirectChannels == {c \in Channel : c.room = None /\ c.world = World}

GOCDC == "get_or_create_direct_channel"

ADD == "add_channel_user"

\* The steps of a call: it returns in the step that starts it, or it is
\* suspended by worker w before its second statement, or w resumes and ends it.
ReturnsAtOnce(op) == nops' = nops + 1 /\ frames' = frames /\ last'.op = op

Suspends(w, op) ==
    frames[w].pc = "idle" /\ frames'[w].pc # "idle" /\ frames'[w].op = op

Resumes(w, op) ==
    frames[w].pc # "idle" /\ frames[w].op = op /\ frames'[w].pc = "idle"

\* C5 (as claimed): after any sequence of get_or_create_direct_channel,
\* add_channel_user and remove_channel_user calls, no two direct channels of
\* the world have the same member set of two or more users.
C5_OneDirectChannelPerSet ==
    \A c1, c2 \in DirectChannels :
        (/\ c1 # c2
         /\ Cardinality(MemberSet(Membership, c1.id)) >= 2)
        => MemberSet(Membership, c1.id) # MemberSet(Membership, c2.id)

\* the call that returned last gave a channel for the users now asked for,
\* who are still eligible
SecondCallFor(user_ids) ==
    /\ last.op = GOCDC
    /\ last.result.channel # 0
    /\ Range(user_ids) = Range(last.a.user_ids)
    /\ ~NotEligible(user_ids, blocked)

\* C6: when a get_or_create_direct_channel call has returned a channel and
\* the next call, made right after it, asks for the same users, who are still
\* eligible, it returns that channel with created=False at once and changes
\* no channel and no membership row (so no hidden or volatile flag either).
C6_DedupIdempotent ==
    [][/\ \A w \in Workers :
            Suspends(w, GOCDC) => ~SecondCallFor(frames'[w].a.user_ids)
       /\ (ReturnsAtOnce(GOCDC) /\ SecondCallFor(last'.a.user_ids))
          => /\ last'.result.channel = last.result.channel
             /\ last'.result.created = FALSE
             /\ last'.result.raised = None
             /\ Channel' = Channel
             /\ Membership' = Membership]_vars

\* C6 witness: the second call has returned the channel the first one created
\* (two operations were made, the channel exists, created is False), and the
\* channel has a hidden membership.
C6_Witness ==
    /\ nops = 2
    /\ last.op = GOCDC
    /\ last.result.channel \in {c.id : c \in DirectChannels}
    /\ ~last.result.created
    /\ Cardinality(DirectChannels) = 1
    /\ \E m \in Membership : m.hidden

\* the room-less channels of the world whose member set is exactly the
\* requested set
ExactChannels(user_ids) ==
    {c \in DirectChannels : MemberSet(Membership, c.id) = Range(user_ids)}

\* C7: an eligible request gets an existing channel back only when that
\* channel is room-less, of the same world and has exactly the requested
\* members; the call goes on to create a channel exactly when there is no
\* such channel (only subsets, supersets, room channels), and the channel it
\* creates is new and has the requested users as members.
C7_ExactMatchOnly ==
    [][/\ (ReturnsAtOnce(GOCDC) /\ ~NotEligible(last'.a.user_ids, blocked))
          => \/ /\ last'.result.raised # None
                /\ Cardinality(ExactChannels(last'.a.user_ids)) > 1
             \/ /\ last'.result.channel \in
                       {c.id : c \in ExactChannels(last'.a.user_ids)}
                /\ ~last'.result.created
       /\ \A w \in Workers :
            Suspends(w, GOCDC) => ExactChannels(frames'[w].a.user_ids) = {}
       /\ \A w \in Workers :
            Resumes(w, GOCDC)
            => /\ last'.result.created
               /\ last'.result.channel \notin ChannelIds
               /\ last'.result.channel \in {c.id : c \in Channel'}
               /\ MemberSet(Membership', last'.result.channel)
                      = Range(frames[w].a.user_ids)]_vars

\* C7 witness: [A,B,C] was asked for while a direct channel of A and B
\* existed, and a new channel was created for the three.
C7_Witness ==
    /\ last.op = GOCDC
    /\ last.result.created
    /\ last.result.users = {"A", "B", "C"}
    /\ \E c \in DirectChannels :
          /\ c.id # last.result.channel
          /\ MemberSet(Membership, c.id) = {"A", "B"}

HasBlockedPair(user_ids) ==
    \E u, v \in Range(user_ids) : u # v /\ <<u, v>> \in blocked

\* C8: a request naming two users one of whom has blocked the other, in
\* either direction and in any order of the ids, returns (None, False, [])
\* at once, creates nothing and returns no existing channel.
C8_BlockedPairRejected ==
    [][/\ \A w \in Workers :
            Suspends(w, GOCDC) => ~HasBlockedPair(frames'[w].a.user_ids)
       /\ (ReturnsAtOnce(GOCDC) /\ HasBlockedPair(last'.a.user_ids))
          => /\ last'.result = NoResult
             /\ Channel' = Channel
             /\ Membership' = Membership]_vars

\* C8 witness: B has blocked A, a direct channel of A and B exists already,
\* and the request [A, B] (the blocked user first) was rejected.
C8_Witness ==
    /\ blocked = {<<"B", "A">>}
    /\ last.op = GOCDC
    /\ last.a.user_ids = <<"A", "B">>
    /\ last.result = NoResult
    /\ \E c \in DirectChannels : MemberSet(Membership, c.id) = {"A", "B"}

\* C9: an add_channel_user call returns created=True exactly when it has
\* inserted the row of (channel, user); when the row exists the call returns
\* False, the pair still has one row, and a call with volatile=False leaves
\* that row non-volatile.
C9_AddIdempotent ==
    [][/\ ReturnsAtOnce(ADD)
          => LET a == last'.a IN
             /\ Rows(Membership, a.channel_id, a.user) # {}
             /\ ~last'.result.created
             /\ Cardinality(Rows(Membership', a.channel_id, a.user)) = 1
             /\ ~a.volatile
                   => \A m \in Rows(Membership', a.channel_id, a.user) : ~m.volatile
       /\ \A w \in Workers :
            Suspends(w, ADD)
            => /\ Rows(Membership, frames'[w].a.channel_id, frames'[w].a.user) = {}
               /\ Membership' = Membership
       /\ \A w \in Workers :
            Resumes(w, ADD)
            => LET a == frames[w].a IN
               /\ last'.result.created <=> Rows(Membership, a.channel_id, a.user) = {}
               /\ Cardinality(Rows(Membership', a.channel_id, a.user)) = 1
               /\ (~last'.result.created /\ ~a.volatile)
                     => \A m \in Rows(Membership', a.channel_id, a.user) : ~m.volatile]_vars

\* C9 witness: the second call for the pair, with volatile=False, found a
\* volatile row, returned created=False and saved the row as non-volatile;
\* the pair has one row.
C9_Witness ==
    /\ last.op = ADD
    /\ ~last.a.volatile
    /\ ~last.result.created
    /\ last.result.saved
    /\ Cardinality(Rows(Membership, last.a.channel_id, last.a.user)) = 1
    /\ \A m \in Rows(Membership, last.a.channel_id, last.a.user) : ~m.volatile

\* C10: there is at most one membership row per (channel, user).
C10_UniqueMembership ==
    \A m1, m2 \in Membership :
        (m1.channel = m2.channel /\ m1.user = m2.user) => m1 = m2

\* C10 witness: a worker is about to insert the row of a pair that another
\* worker has inserted since the first one looked for it.
C10_Witness ==
    \E w \in Workers :
        /\ frames[w].pc = "add_create"
        /\ Rows(Membership, frames[w].a.channel_id, frames[w].a.user) # {}

\* ------------------------------------------------- claims on hidden flags
\* C11: a membership row that is non-volatile stays non-volatile in every
\* step that keeps the row, whatever add_channel_user (volatile=True too),
\* hide_channel_user or show_channels_to_hidden_users does.
C11_VolatileOnlyCleared ==
    [][\A m \in Membership :
          ~m.volatile
          => \A n \in Rows(Membership', m.channel, m.user) : ~n.volatile]_vars

\* C11 witness: a row was made non-volatile, the channel was shown to its
\* hidden users, and add_channel_user with volatile=True has then returned
\* for that row, which is still non-volatile.
C11_Witness ==
    /\ nops = 3
    /\ last.op = ADD
    /\ last.a.volatile
    /\ last.a.user = "A"
    /\ ~last.result.created
    /\ \A m \in Membership : ~m.volatile /\ ~m.hidden

\* ---------------------------------------------------- claims on reactions
UniqueReactions(rows) ==
    \A x, y \in rows :
        (x.chat_event = y.chat_event /\ x.reaction = y.reaction
            /\ x.sender = y.sender) => x = y

\* C12: there is at most one reaction row per (event, sender, reaction); an
\* add_reaction call leaves exactly one row for its triple, and none is
\* added when the row exists; a remove_reaction call leaves no row for its
\* triple, changes nothing when there was none, and no call raises.
C12_ReactionIdempotent ==
    [][/\ UniqueReactions(ChatEventReaction')
       /\ ReturnsAtOnce("add_reaction")
          => LET a == last'.a IN
             /\ last'.result.raised = None
             /\ Cardinality(ReactionRows(ChatEventReaction', a.event,
                                         a.reaction, a.user)) = 1
             /\ ChatEventReaction' = ChatEventReaction
       /\ \A w \in Workers :
            Resumes(w, "add_reaction")
            => LET a == frames[w].a IN
               /\ last'.result.raised = None
               /\ Cardinality(ReactionRows(ChatEventReaction', a.event,
                                           a.reaction, a.user)) = 1
       /\ ReturnsAtOnce("remove_reaction")
          => LET a == last'.a IN
             /\ last'.result.raised = None
             /\ ReactionRows(ChatEventReaction', a.event, a.reaction, a.user) = {}
             /\ last'.result.matched = 0
                   => ChatEventReaction' = ChatEventReaction]_vars

\* C12 witness: the third call made was an add_reaction for a triple whose
\* row existed; the call has returned and the table holds that one row.
C12_Witness ==
    /\ nops = 3
    /\ last.op = "add_reaction"
    /\ last.result.matched = 1
    /\ last.result.raised = None
    /\ Cardinality(ChatEventReaction) = 1
    /\ \A x \in ChatEventReaction : x.id = 1

\* ------------------------------------------------ claims on notifications
\* the notifications user U has outstanding in channel C for events up to max_id
Outstanding(rows, U, C, max_id) ==
    {n \in rows : /\ n.recipient = U
                  /\ n.chat_event <= max_id
                  /\ \E e \in ChatEvent : e.id = n.chat_event /\ e.channel = C}

\* the count a mapping of counts reports for channel C
CountFor(counts, C) == IF Str(C) \in DOMAIN counts THEN counts[Str(C)] ELSE 0

\* C13: store_notification(e, [U]) adds one outstanding notification of U
\* for the channel of e, and get_notification_counts(U) reports for every
\* channel the number of U's outstanding notifications in it;
\* remove_notifications(U, C, max_id) returns True when U had a notification
\* in C for an event up to max_id (so when max_id >= e after the store) and
\* leaves none, and the same call made right after it returns False.
C13_NotificationLifecycle ==
    [][/\ (ReturnsAtOnce("store_notification") /\ Len(last'.a.user_ids) = 1)
          => LET U == last'.a.user_ids[1]
                 C == EventChannel(ChatEvent, last'.a.event_id)
             IN  Cardinality(Outstanding(ChatEventNotification', U, C, HighestId(ChatEvent)))
                    = Cardinality(Outstanding(ChatEventNotification, U, C, HighestId(ChatEvent))) + 1
       /\ ReturnsAtOnce("get_notification_counts")
          => \A C \in EventChannels :
                CountFor(last'.result.counts, C)
                   = Cardinality(Outstanding(ChatEventNotification,
                                             last'.a.user_id, C,
                                             HighestId(ChatEvent)))
       /\ ReturnsAtOnce("remove_notifications")
          => LET a == last'.a IN
             /\ last'.result.deleted
                   <=> Outstanding(ChatEventNotification, a.user_id,
                                   a.channel_id, a.max_id) # {}
             /\ Outstanding(ChatEventNotification', a.user_id,
                            a.channel_id, a.max_id) = {}
             /\ (last.op = "remove_notifications" /\ last.a = a)
                   => ~last'.result.deleted]_vars

\* C13 witness: remove_notifications(A, r2, 2) has returned True, so a
\* notification of A for event 2 had been stored; A has none left, and the
\* notification stored for B with it is still there.
C13_Witness ==
    /\ last.op = "remove_notifications"
    /\ last.a = [user_id |-> "A", channel_id |-> "r2", max_id |-> 2]
    /\ last.result.deleted
    /\ \A n \in ChatEventNotification : n.recipient = "B" /\ n.chat_event = 2
    /\ ChatEventNotification # {}

\* ------------------------------------------------- claims on forced joins
\* C14: a run of enforce_forced_joins started for a user who is a
\* non-volatile member of every force-join channel they may join creates no
\* membership row, stores no event and sends nothing, to its end; the run
\* never gets to add_channel_user and returns without an exception.
C14_ForcedJoinIdempotent ==
    [][/\ \A w \in Workers :
            Suspends(w, ENFORCE)
            => (frames'[w].a.already
                  <=> AlreadyJoined(frames'[w].a.user, Channel, Membership))
       /\ (ReturnsAtOnce(ENFORCE)
              /\ AlreadyJoined(last'.a.user, Channel, Membership))
          => /\ Membership' = Membership
             /\ ChatEvent' = ChatEvent
             /\ sent' = sent
             /\ calls' = calls
       /\ \A w \in Workers :
            (frames'[w].op = ENFORCE /\ frames'[w].a.already)
            => frames'[w].pc = "enforce_loop"
       /\ \A w \in Workers :
            (frames[w].op = ENFORCE /\ frames[w].a.already
                /\ frames'[w] # frames[w])
            => /\ Membership' = Membership
               /\ ChatEvent' = ChatEvent
               /\ sent' = sent
               /\ calls' = calls
               /\ frames'[w].pc = "idle"
                     => /\ last'.result.raised = None
                        /\ last'.result.joined = {}]_vars

\* C14 witness: a run for A, who had joined the chat of R1 in an earlier run
\* (the join event is in the log and was sent) and was a non-volatile member
\* of the chats of R1 and R3, has ended: it looked at the chat of R2 only,
\* and joined nothing.
C14_Witness ==
    /\ last.op = ENFORCE
    /\ last.a.user = "A"
    /\ last.a.already
    /\ last.a.c_to_join = {2}
    /\ last.result.joined = {}
    /\ \E e \in ChatEvent : e.event_type = "channel.member" /\ e.channel = 1
    /\ Cardinality(sent) = 1
    /\ {m.channel : m \in {x \in Membership : x.user = "A" /\ ~x.volatile}} = {1, 3}

HasDisplayName(user) ==
    /\ "display_name" \in DOMAIN Profile[user]
    /\ Profile[user].display_name # ""

\* C15: every membership row that a step of an enforce_forced_joins run
\* writes, and every channel.member event stored, is for a user with a
\* display name and a channel whose room the oracle lets that user join;
\* after a denial the loop goes on: a channel goes to add_channel_user
\* exactly when it is permitted, and the run ends without exception only
\* when no channel of c_to_join is left.
C15_DeniedChannelsSkipped ==
    [][/\ \A m \in Membership' \ Membership :
            (\E w \in Workers : frames[w].op = ENFORCE /\ frames'[w] # frames[w])
            => /\ HasDisplayName(m.user)
               /\ <<m.user, RoomOf(m.channel)>> \in RoomChatJoin
       /\ \A e \in ChatEvent' \ ChatEvent :
            e.event_type = "channel.member"
            => /\ HasDisplayName(e.sender)
               /\ <<e.sender, RoomOf(e.channel)>> \in RoomChatJoin
       /\ \A w \in Workers :
            Suspends(w, ENFORCE) => HasDisplayName(frames'[w].a.user)
       /\ \A w \in Workers :
            (frames[w].pc = "enforce_loop" /\ frames'[w] # frames[w])
            => LET c == CHOOSE x \in frames[w].a.rest :
                            x \notin (IF frames'[w].pc = "idle" THEN {}
                                      ELSE frames'[w].a.rest)
                   ok == <<frames[w].a.user, RoomOf(c)>> \in RoomChatJoin
               IN  /\ ok <=> frames'[w].pc = "enforce_add"
                   /\ frames'[w].pc = "enforce_add" => frames'[w].a.channel = c
                   /\ ~ok => (frames'[w].pc = "idle" <=> frames[w].a.rest = {c})
       /\ \A w \in Workers :
            (Resumes(w, ENFORCE) /\ last'.result.raised = None)
            => frames[w].a.rest \in
                  {{}} \cup (IF frames[w].pc = "enforce_loop"
                             THEN {{c} : c \in frames[w].a.rest} ELSE {})]_vars

\* C15 witness: a run for A over the chats of R1, R2 and R3 has ended without
\* exception; A has no membership in the chat of R2, which the oracle denies,
\* and is a non-volatile member of the other two, R1 joined in this run.
C15_Witness ==
    /\ last.op = ENFORCE
    /\ last.a.user = "A"
    /\ last.a.c_to_join = {1, 2, 3}
    /\ last.result.raised = None
    /\ last.result.joined = {1}
    /\ {m.channel : m \in {x \in Membership : x.user = "A" /\ ~x.volatile}} = {1, 3}
    /\ Rows(Membership, 2, "A") = {}

\* -------------------------------------------------- claims on get_last_id
\* C16: get_last_id returns the value of the counter when the key is there
\* (also when the value is 0), and otherwise the highest id of the log when
\* the log is read, 0 for an empty log; no step of it changes the counter
\* or the log.
C16_GetLastId ==
    [][/\ ReturnsAtOnce("get_last_id")
          => /\ chat_event_id.present
             /\ last'.result.value = chat_event_id.value
             /\ UNCHANGED <<chat_event_id, ChatEvent>>
       /\ \A w \in Workers :
            Suspends(w, "get_last_id")
            => /\ ~chat_event_id.present
               /\ UNCHANGED <<chat_event_id, ChatEvent>>
       /\ \A w \in Workers :
            Resumes(w, "get_last_id")
            => /\ \A e \in ChatEvent : e.id <= last'.result.value
               /\ \/ ChatEvent = {} /\ last'.result.value = 0
                  \/ \E e \in ChatEvent : e.id = last'.result.value
               /\ UNCHANGED <<chat_event_id, ChatEvent>>]_vars

\* C16 witness: get_last_id has returned 0, the value of the counter, which
\* was forced to 0 with its key present, while the log holds an event.
C16_Witness ==
    /\ last.op = "get_last_id"
    /\ last.result.value = 0
    /\ chat_event_id = [present |-> TRUE, value |-> 0]
    /\ ChatEvent # {}

\* ---------------------------------------------------- claims on self-heal
\* C17 (as claimed): after one counter reset, with no further reset and no
\* store outage, when every caller has collided on its first insert and gone
\* through the self-heal, no caller ends with the fatal error.
C17_ConcurrentSelfHeal ==
    (\A w \in Workers : calls[w].retry /\ calls[w].pc # "error")
    => \A w \in Workers : calls[w].pc # "fatal"

\* C18 (as claimed): a call whose incremented counter value is below 2
\* resets the counter from the log and draws a new candidate before the
\* insert, so no insert is attempted with a candidate below 2.
C18_FloorReallocates ==
    \A w \in Workers : calls[w].pc = "store" => calls[w].event_id >= 2

\* C19 (as claimed): the existence check and the creation of a
\* get_or_create_direct_channel call are one unit: a call creates its channel
\* only while no direct channel of exactly its users exists, so concurrent
\* calls for one user set create one channel between them.
C19_CheckAndCreateAtomic ==
    [][\A w \in Workers :
          Resumes(w, GOCDC) => ExactChannels(frames[w].a.user_ids) = {}]_vars

\* the request names an id that is no user of this world, names an id twice,
\* names fewer than two users, or names a deleted, kiosk or anonymous user
Ineligible(user_ids) ==
    \/ \E i \in DOMAIN user_ids :
          user_ids[i] \notin UserIds \/ User[user_ids[i]].world # World
    \/ \E i, j \in DOMAIN user_ids : i # j /\ user_ids[i] = user_ids[j]
    \/ Len(user_ids) < 2
    \/ \E i \in DOMAIN user_ids :
          /\ user_ids[i] \in UserIds
          /\ \/ User[user_ids[i]].deleted
             \/ User[user_ids[i]].type \in {"kiosk", "anonymous"}

\* C20: a get_or_create_direct_channel request that names an id that is no
\* user of this world (or one id twice), fewer than two users, or a deleted,
\* kiosk or anonymous user returns (None, False, []) at once, raises nothing
\* and changes no channel and no membership.
C20_IneligibleRejected ==
    [][/\ \A w \in Workers :
            Suspends(w, GOCDC) => ~Ineligible(frames'[w].a.user_ids)
       /\ (ReturnsAtOnce(GOCDC) /\ Ineligible(last'.a.user_ids))
          => /\ last'.result = NoResult
             /\ Channel' = Channel
             /\ Membership' = Membership]_vars

\* C20 witness: a direct channel with member A exists, and the request [N, A]
\* naming the anonymous user N was rejected.
C20_Witness ==
    /\ last.op = GOCDC
    /\ last.a.user_ids = <<"N", "A">>
    /\ last.result = NoResult
    /\ \E c \in DirectChannels : "A" \in MemberSet(Membership, c.id)

\* ------------------------------------- claims on the events of forced joins
\* the join events of the log for (user, channel)
JoinEvents(log, user, channel_id) ==
    {e \in log : /\ e.event_type = "channel.member"
                 /\ e.channel = channel_id
                 /\ e.sender = user
                 /\ e.content = [membership |-> "join", user |-> user]}

\* C21: in a run of enforce_forced_joins, the step of add_channel_user goes
\* on to create_event exactly when it has created the membership row; a row
\* that exists is made non-volatile and the loop goes on with no event. Every
\* channel.member event stored is the one join event, with the user as
\* sender, of a run that has just created the membership of that channel,
\* and the run goes on without error only when that one event is in the log.
C21_JoinEventIffCreated ==
    [][/\ \A w \in Workers :
            (frames[w].pc \in {"enforce_add", "enforce_add_create"}
                /\ frames'[w] # frames[w])
            => LET a == frames[w].a
                   had == Rows(Membership, a.channel, a.user)
                   has == Rows(Membership', a.channel, a.user)
               IN  /\ ChatEvent' = ChatEvent
                   /\ (had = {} /\ has # {}) <=> frames'[w].pc = "enforce_event"
                   /\ frames'[w].pc = "enforce_event"
                         => /\ a.channel \in frames'[w].a.joined
                            /\ calls'[w].pc = "idle"
                   /\ had # {}
                         => /\ \A m \in has : ~m.volatile
                            /\ Cardinality(has) = 1
                            /\ frames'[w].pc \in {"enforce_loop", "idle"}
                            /\ (frames'[w].pc = "idle"
                                   => a.channel \notin last'.result.joined)
       /\ \A e \in ChatEvent' \ ChatEvent :
            e.event_type = "channel.member"
            => \E w \in Workers :
                  /\ frames[w].pc = "enforce_event"
                  /\ calls[w].pc = "store"
                  /\ calls'[w].pc = "done"
                  /\ frames[w].a.channel \in frames[w].a.joined
                  /\ JoinEvents(ChatEvent', frames[w].a.user, frames[w].a.channel)
                        \ ChatEvent = {e}
                  /\ ChatEvent' = ChatEvent \cup {e}
       /\ \A w \in Workers :
            (frames[w].pc = "enforce_event" /\ frames'[w] # frames[w])
            => /\ ChatEvent' = ChatEvent
               /\ frames'[w].pc \in {"enforce_loop", "idle"}
               /\ (frames'[w].pc = "idle" => last'.result.raised = None)
                     => /\ calls[w].pc = "done"
                        /\ \E e \in JoinEvents(ChatEvent, frames[w].a.user,
                                               frames[w].a.channel) :
                              e.id = calls[w].event_id]_vars

\* C21 witness: a run for A has ended without error; it created A's
\* membership in the chat of R1, for which the log has exactly one join event
\* of A, and made A's volatile membership in the chat of R3 non-volatile, for
\* which the log has no event.
C21_Witness ==
    /\ last.op = ENFORCE
    /\ last.a.user = "A"
    /\ last.result.raised = None
    /\ last.result.joined = {1}
    /\ 3 \in last.a.c_to_join
    /\ Cardinality(JoinEvents(ChatEvent, "A", 1)) = 1
    /\ \A m \in Rows(Membership, 3, "A") : ~m.volatile
    /\ Rows(Membership, 3, "A") # {}
    /\ \A e \in ChatEvent : e.channel # 3

\* C22: when runs of enforce_forced_joins for one user execute concurrently,
\* with no leave in between, every channel has at most one membership row of
\* the user, the log has at most one join event of the user for the channel,
\* and at most one of the runs counts the channel as joined by it.
C22_ConcurrentRunsJoinOnce ==
    \A u \in ForcedUsers : \A c \in ChannelIds :
        /\ Cardinality(Rows(Membership, c, u)) <= 1
        /\ Cardinality(JoinEvents(ChatEvent, u, c)) <= 1
        /\ Cardinality({w \in Workers :
                /\ frames[w].op = ENFORCE
                /\ frames[w].a.user = u
                /\ c \in frames[w].a.joined}) <= 1

\* C22 witness: a run for A that had found the chat of R1 to join has ended
\* without having joined it: a concurrent run created the membership, and
\* the log has the one join event.
C22_Witness ==
    /\ last.op = ENFORCE
    /\ last.a.user = "A"
    /\ 1 \in last.a.c_to_join
    /\ 1 \notin last.result.joined
    /\ last.result.raised = None
    /\ Cardinality(Rows(Membership, 1, "A")) = 1
    /\ Cardinality(JoinEvents(ChatEvent, "A", 1)) = 1

\* ------------------------------------------- claims on the stored events
\* C23: no step of create_event removes or changes a row of the log; an
\* insert attempted with an id the log already has fails and leaves the log
\* as it was, and a row is only ever added under an id the log did not have.
C23_InsertNeverOverwrites ==
    [][/\ ChatEvent \subseteq ChatEvent'
       /\ \A e \in ChatEvent' \ ChatEvent : e.id \notin EventIds(ChatEvent)
       /\ \A w \in Workers :
            (/\ calls[w].pc = "store"
             /\ calls'[w].pc # "store"
             /\ calls[w].event_id \in EventIds(ChatEvent))
            => /\ ChatEvent' = ChatEvent
               /\ calls'[w].pc \in {"heal_max", "fatal", "error"}]_vars

\* C23 witness: a call for channel r2 has made its insert with an id under
\* which the log has an event of channel r1; the insert failed and that
\* event is in the log as it was.
C23_Witness ==
    \E w \in Workers :
        /\ calls[w].pc = "heal_max"
        /\ calls[w].attempts = 1
        /\ calls[w].args.channel = "r2"
        /\ \E e \in ChatEvent : e.id = calls[w].event_id /\ e.channel = "r1"

\* the content without the body that _store_event fills in for a call
WithoutBody(content) == [k \in DOMAIN content \ {"body"} |-> content[k]]

\* C24 (as claimed): when create_event has stored its event on the self-heal
\* retry, the stored event has the channel, event type, content, sender and
\* replaces reference the call was made with.
C24_RetryKeepsArguments ==
    \A w \in Workers :
        (calls[w].pc = "done" /\ calls[w].retry)
        => \E e \in ChatEvent :
              /\ e.id = calls[w].event_id
              /\ e.channel = calls[w].given.channel
              /\ e.event_type = calls[w].given.event_type
              /\ WithoutBody(e.content) = WithoutBody(calls[w].given.content)
              /\ e.sender = calls[w].given.sender
              /\ e.replaces = calls[w].given.replaces

\* the stored events whose content body names the call record
EventsOfCall(b) ==
    {e \in ChatEvent : /\ IsCall(e.content)
                       /\ "body" \in DOMAIN e.content
                       /\ e.content.body = [id |-> StrId(b.id), type |-> "bbb"]}

\* C25 (as claimed): in a world without the janus flag every call record
\* belongs to exactly one stored call event, whose content body has its id,
\* and every stored call event has the id of a call record: a create_event
\* call makes one record when it stores its event, also on the retry, and
\* none when it stores no event.
C25_OneCallRecordPerEvent ==
    /\ \A b \in BBBCall : Cardinality(EventsOfCall(b)) = 1
    /\ \A e \in ChatEvent :
          IsCall(e.content) => \E b \in BBBCall : e \in EventsOfCall(b)

\* ------------------------------------------ claims on showing a channel
SHOW == "show_channels_to_hidden_users"

HiddenUsers(rows, channel_id) ==
    {m.user : m \in {r \in rows : r.channel = channel_id /\ r.hidden}}

\* the rows with the hidden flag of (channel, user) cleared
Shown(rows, channel_id, uid) ==
    {IF m.channel = channel_id /\ m.user = uid
     THEN [channel |-> m.channel, user |-> m.user, volatile |-> m.volatile,
           hidden |-> FALSE]
     ELSE m : m \in rows}

\* C26: a show_channels_to_hidden_users call that finds no hidden membership
\* in its channel returns no users and changes nothing. Otherwise it starts
\* with nobody collected, and each of its steps clears the hidden flag of
\* one hidden member of the channel and collects that user, changing no
\* other row and no other column; it ends without error when no membership
\* of the channel is hidden, returning the users collected, who are those
\* hidden when it started. A call repeated right after it returns no users.
C26_ShowReturnsHiddenUsers ==
    [][/\ ReturnsAtOnce(SHOW)
          => /\ HiddenUsers(Membership, last'.a.channel_id) = {}
             /\ last'.result.users = {}
             /\ last'.result.raised = None
             /\ Membership' = Membership
       /\ \A w \in Workers :
            Suspends(w, SHOW)
            => /\ HiddenUsers(Membership, frames'[w].a.channel_id) # {}
               /\ frames'[w].a.u = {}
               /\ ~(last.op = SHOW /\ last.a.channel_id = frames'[w].a.channel_id)
               /\ Membership' = Membership
       /\ \A w \in Workers :
            (frames[w].pc = "show_save" /\ frames'[w] # frames[w])
            => LET c == frames[w].a.channel_id
                   ended == frames'[w].pc = "idle"
                   got == IF ended THEN last'.result.users ELSE frames'[w].a.u
               IN  /\ frames[w].a.u \cap HiddenUsers(Membership, c) = {}
                   /\ \E x \in HiddenUsers(Membership, c) :
                         /\ Membership' = Shown(Membership, c, x)
                         /\ got = frames[w].a.u \cup {x}
                   /\ ended <=> HiddenUsers(Membership', c) = {}
                   /\ ended => last'.result.raised = None]_vars

\* C26 witness: the chat of R1 was shown to its hidden users A and B, and the
\* call repeated right after has returned no users; no membership of the chat
\* of R1 is hidden, A is still volatile there, and the chat of R2 is still
\* hidden from A and C.
C26_Witness ==
    /\ nops = 2
    /\ last.op = SHOW
    /\ last.a.channel_id = 1
    /\ last.result.users = {}
    /\ HiddenUsers(Membership, 1) = {}
    /\ MemberSet(Membership, 1) = {"A", "B", "C"}
    /\ \E m \in Rows(Membership, 1, "A") : m.volatile
    /\ HiddenUsers(Membership, 2) = {"A", "C"}

\* -------------------------------- claims on the removal of notifications
\* C28: remove_notifications(U, C, max_id) deletes notification rows only,
\* and only rows of recipient U for an event of channel C with an id up to
\* max_id; every row of another user, of an event of another channel or of
\* an event with a higher id is kept as it is, and the call returns True
\* exactly when it has deleted a row.
C28_RemoveOnlyMatching ==
    [][ReturnsAtOnce("remove_notifications")
       => LET a == last'.a
              gone == ChatEventNotification \ ChatEventNotification'
          IN  /\ ChatEventNotification' \subseteq ChatEventNotification
              /\ \A n \in gone :
                    /\ n.recipient = a.user_id
                    /\ n.chat_event <= a.max_id
                    /\ \E e \in ChatEvent :
                          e.id = n.chat_event /\ e.channel = a.channel_id
              /\ \A n \in ChatEventNotification :
                    (\/ n.recipient # a.user_id
                     \/ n.chat_event > a.max_id
                     \/ \E e \in ChatEvent :
                           e.id = n.chat_event /\ e.channel # a.channel_id)
                    => n \in ChatEventNotification'
              /\ last'.result.deleted <=> gone # {}
              /\ ChatEvent' = ChatEvent
              /\ ChatEventReaction' = ChatEventReaction]_vars

\* C28 witness: notifications were stored for A and B for event 1 of r1 and
\* for A for event 3 of r1, and remove_notifications(A, r1, 1) has then
\* returned True; A's notification for event 3 and B's for event 1 are the
\* rows left.
C28_Witness ==
    /\ nops = 3
    /\ last.op = "remove_notifications"
    /\ last.a = [user_id |-> "A", channel_id |-> "r1", max_id |-> 1]
    /\ last.result.deleted
    /\ {<<n.recipient, n.chat_event>> : n \in ChatEventNotification}
          = {<<"A", 3>>, <<"B", 1>>}

\* ------------------------------------------ claims on the channels of a user
\* the ids of the events of a channel that are not membership changes
MessageIds(channel_id) ==
    {e.id : e \in {x \in ChatEvent : x.channel = channel_id
                                     /\ x.event_type # "channel.member"}}

\* C27: every entry get_channels_for_user returns is for a membership of the
\* user, and its unread_pointer is the highest id among the events of that
\* channel that are not of type channel.member, or 0 when the channel has
\* none; with is_volatile=False the membership of every entry is
\* non-volatile, and with is_hidden=False it is not hidden. The call changes
\* nothing.
C27_UnreadPointer ==
    [][ReturnsAtOnce(LIST)
       => /\ \A r \in last'.result.channels :
                \E m \in Membership :
                   /\ m.user = last'.a.user_id
                   /\ r.id = Str(m.channel)
                   /\ IF MessageIds(m.channel) = {}
                      THEN r.unread_pointer = 0
                      ELSE /\ r.unread_pointer \in MessageIds(m.channel)
                           /\ \A i \in MessageIds(m.channel) :
                                 i <= r.unread_pointer
                   /\ last'.a.is_volatile = "False" => ~m.volatile
                   /\ last'.a.is_hidden = "False" => ~m.hidden
          /\ Membership' = Membership
          /\ ChatEvent' = ChatEvent]_vars

\* C27 witness: A has joined the chat of R2 as a volatile member and hidden
\* the direct channel, and get_channels_for_user(A, is_volatile=False) with
\* the default is_hidden=False has returned the chat of R1 alone, with the
\* message 1 as unread pointer although the join 2 is in that chat too.
C27_Witness ==
    /\ last.op = LIST
    /\ last.a = [user_id |-> "A", is_volatile |-> "False", is_hidden |-> "False"]
    /\ last.result.channels = {[id |-> Str(1), unread_pointer |-> 1]}
    /\ \E e \in ChatEvent : e.id = 2 /\ e.channel = 1
    /\ \E m \in Rows(Membership, 2, "A") : m.volatile
    /\ \E m \in Rows(Membership, 3, "A") : m.hidden

====
